---- MODULE Spec2Model ----
(***************************************************************************)
(* Model of twitter_bot.py: one cycle of main() is load_data, get_news,    *)
(* create_tweet_text, post_tweet and save_data, run against a spreadsheet  *)
(* (the store), a news provider, a publisher and the wall clock.           *)
(*                                                                         *)
(* A Python str is a sequence of units: characters where the code looks   *)
(* inside the text (digits, timestamps), whole words where it only tests   *)
(* a text as a whole.  The sheet holds what get_all_values() returns, a    *)
(* list of rows of str cells, [] for a sheet without rows.                 *)
(***************************************************************************)
EXTENDS Integers, Sequences, FiniteSets, TLC

\* ------------------------------------------------------------------ bounds
\* Number of cycles of main() a behaviour runs.
MaxCycles == 2

\* --------------------------------------------------------- program constants
FetchLimit == 1000
DailyLimit == 50
MonthlyLimit == 1500
TweetLimit == 280
TruncateAt == 277
SummaryBudget == 180

\* ------------------------------------------------------------ Python values
\* None, for a variable that otherwise holds a str.
None == <<"None">>
\* None, for a variable that otherwise holds a dict.
NoneDict == [none |-> TRUE]

Truthy(s) == s # None /\ s # <<>>

\* A character is a unit: an ASCII character stands for itself; a control
\* character, the grave accent and a character outside ASCII is "U+" and its
\* code point in hexadecimal.  The 128 ASCII characters, by code point:
AsciiChars ==
    <<"U+0000", "U+0001", "U+0002", "U+0003", "U+0004", "U+0005", "U+0006", "U+0007",
      "U+0008", "\t", "\n", "U+000B", "\f", "\r", "U+000E", "U+000F", "U+0010",
      "U+0011", "U+0012", "U+0013", "U+0014", "U+0015", "U+0016", "U+0017", "U+0018",
      "U+0019", "U+001A", "U+001B", "U+001C", "U+001D", "U+001E", "U+001F", " ", "!",
      "\"", "#", "$", "%", "&", "'", "(", ")", "*", "+", ",", "-", ".", "/", "0", "1",
      "2", "3", "4", "5", "6", "7", "8", "9", ":", ";", "<", "=", ">", "?", "@", "A",
      "B", "C", "D", "E", "F", "G", "H", "I", "J", "K", "L", "M", "N", "O", "P", "Q",
      "R", "S", "T", "U", "V", "W", "X", "Y", "Z", "[", "\\", "]", "^", "_", "U+0060", "a",
      "b", "c", "d", "e", "f", "g", "h", "i", "j", "k", "l", "m", "n", "o", "p", "q",
      "r", "s", "t", "u", "v", "w", "x", "y", "z", "{", "|", "}", "~", "U+007F">>
Ascii == {AsciiChars[i] : i \in 1..128}
HexDigits ==
    <<"0", "1", "2", "3", "4", "5", "6", "7", "8", "9", "A", "B", "C", "D", "E", "F">>
\* The hexadecimal digit of n at the place of 16^k.
HexAt(n, k) == HexDigits[((n \div (16 ^ k)) % 16) + 1]
\* chr(n): the character of code point n.
chr(n) ==
    IF n < 128 THEN AsciiChars[n + 1]
    ELSE "U+" \o (IF n >= 16 ^ 5 THEN HexAt(n, 5) ELSE "")
              \o (IF n >= 16 ^ 4 THEN HexAt(n, 4) ELSE "")
              \o HexAt(n, 3) \o HexAt(n, 2) \o HexAt(n, 1) \o HexAt(n, 0)
Digits == <<"0", "1", "2", "3", "4", "5", "6", "7", "8", "9">>
\* The code points of the zeros of the decimal digits of all scripts (Unicode
\* 14, category Nd); the nine that follow a zero are the digits 1 to 9.
DecimalZeros ==
    {48, 1632, 1776, 1984, 2406, 2534, 2662, 2790, 2918, 3046, 3174, 3302, 3430, 3558,
     3664, 3792, 3872, 4160, 4240, 6112, 6160, 6470, 6608, 6784, 6800, 6992, 7088, 7232,
     7248, 42528, 43216, 43264, 43472, 43504, 43600, 44016, 65296, 66720, 68912, 69734,
     69872, 69942, 70096, 70384, 70736, 70864, 71248, 71360, 71472, 71904, 72016, 72784,
     73040, 73120, 92768, 92864, 93008, 120782, 120792, 120802, 120812, 120822, 123200,
     123632, 125264, 130032}
\* The code points of the digits that are no decimals (superscripts,
\* subscripts, circled and dotted digits and the like), as ranges.
OtherDigitRanges ==
    {<<178, 179>>, <<185, 185>>, <<4969, 4977>>, <<6618, 6618>>, <<8304, 8304>>,
     <<8308, 8313>>, <<8320, 8329>>, <<9312, 9320>>, <<9332, 9340>>, <<9352, 9360>>,
     <<9450, 9450>>, <<9461, 9469>>, <<9471, 9471>>, <<10102, 10110>>, <<10112, 10120>>,
     <<10122, 10130>>, <<68160, 68163>>, <<69216, 69224>>, <<69714, 69722>>,
     <<127232, 127242>>}

\* The characters int() reads as a digit.
DecimalSet == {chr(zero + k) : zero \in DecimalZeros, k \in 0..9}
\* The characters str.isdigit() accepts.
DigitSet ==
    DecimalSet \cup UNION {{chr(n) : n \in range[1]..range[2]} : range \in OtherDigitRanges}
\* The value of each decimal digit.
DigitValue ==
    [c \in DecimalSet |->
        CHOOSE k \in 0..9 : c \in {chr(zero + k) : zero \in DecimalZeros}]
DigitVal(c) == DigitValue[c]
\* The characters parse_digits of fromisoformat accepts.
AsciiDigits == {Digits[i] : i \in 1..10}
AsciiDigit(c) == c \in AsciiDigits

\* str(n) of a non-negative int, as the sheet shows a number cell.
RECURSIVE str(_)
str(n) == IF n < 10 THEN <<Digits[n + 1]>>
          ELSE str(n \div 10) \o <<Digits[(n % 10) + 1]>>

\* str.isdigit(): non-empty and all digits.
isdigit(s) == Len(s) > 0 /\ \A i \in 1..Len(s) : s[i] \in DigitSet

\* The longest text int() converts (sys.int_max_str_digits).
MaxStrDigits == 4300

\* Whether int(s) raises ValueError on a string isdigit() accepts: on a digit
\* that is no decimal digit and on a text of more than MaxStrDigits digits.
IntRaises(s) == Len(s) > MaxStrDigits \/ \E i \in 1..Len(s) : s[i] \notin DecimalSet

\* int(s) of a string of decimal digits, read by halves: the zeros a text
\* begins with count nothing, however many they are.
RECURSIVE int(_)
int(s) ==
    IF Len(s) = 0 THEN 0
    ELSE IF Len(s) = 1 THEN DigitVal(s[1])
    ELSE LET half == Len(s) \div 2
             high == int(SubSeq(s, 1, half))
             low == int(SubSeq(s, half + 1, Len(s)))
         IN  IF high = 0 THEN low ELSE high * (10 ^ (Len(s) - half)) + low

\* `marker in text`, a text being a sequence of units and the marker one unit.
Contains(text, marker) == \E i \in 1..Len(text) : text[i] = marker

\* dict.get(key, default)
Get(d, key, default) == IF key \in DOMAIN d THEN d[key] ELSE default

\* list.index(x); Len + 1 stands for ValueError.
Index(l, x) == IF \E i \in 1..Len(l) : l[i] = x
               THEN CHOOSE i \in 1..Len(l) : l[i] = x /\ \A j \in 1..(i - 1) : l[j] # x
               ELSE Len(l) + 1

\* ------------------------------------------------------------------- clock
\* datetime values, to the day (the code reads only .date() and .month).
Date(y, m, d) == [year |-> y, month |-> m, day |-> d]

Dates == {Date(2024, 1, 1), Date(2024, 1, 2), Date(2024, 2, 1), Date(2025, 1, 2)}

Before(a, b) ==
    \/ a.year < b.year
    \/ a.year = b.year /\ a.month < b.month
    \/ a.year = b.year /\ a.month = b.month /\ a.day < b.day

Pad2(n) == IF n < 10 THEN <<"0">> \o str(n) ELSE str(n)
Pad4(n) == IF n < 10 THEN <<"0", "0", "0">> \o str(n)
           ELSE IF n < 100 THEN <<"0", "0">> \o str(n)
           ELSE IF n < 1000 THEN <<"0">> \o str(n)
           ELSE str(n)

\* datetime.isoformat(): YYYY-MM-DDTHH:MM:SS, the clock standing at midnight.
isoformat(t) ==
    Pad4(t.year) \o <<"-">> \o Pad2(t.month) \o <<"-">> \o Pad2(t.day)
        \o <<"T", "0", "0", ":", "0", "0", ":", "0", "0">>

\* ----------------------------------------------- datetime.fromisoformat
\* The NUL character, which also ends the text the parser reads.
NUL == chr(0)

\* The character at position i, the terminating NUL past the end.
At(s, i) == IF i >= 1 /\ i <= Len(s) THEN s[i] ELSE NUL

\* n ASCII digits stand at position p.
DigitsAt(s, p, n) == \A k \in 0..(n - 1) : AsciiDigit(At(s, p + k))
NumAt(s, p, n) == int(SubSeq(s, p, p + n - 1))

is_leap(y) == y % 4 = 0 /\ (y % 100 # 0 \/ y % 400 = 0)
DaysInMonth == <<31, 28, 31, 30, 31, 30, 31, 31, 30, 31, 30, 31>>
DaysBeforeMonth == <<0, 31, 59, 90, 120, 151, 181, 212, 243, 273, 304, 334>>
days_in_month(y, m) == IF m = 2 /\ is_leap(y) THEN 29 ELSE DaysInMonth[m]
days_before_year(year) ==
    LET y == year - 1 IN y * 365 + (y \div 4) - (y \div 100) + (y \div 400)
days_before_month(y, m) == DaysBeforeMonth[m] + (IF m > 2 /\ is_leap(y) THEN 1 ELSE 0)
ymd_to_ord(y, m, d) == days_before_year(y) + days_before_month(y, m) + d
\* Monday is 0.
weekday(y, m, d) == (ymd_to_ord(y, m, d) + 6) % 7

\* What a parse gives when the text is no date.
InvalidDate == Date(0, 0, 0)

ord_to_ymd(ordinal, near) ==
    LET hits == {t \in {near - 1, near, near + 1} \X (1..12) \X (1..31) :
                    /\ t[1] >= 1
                    /\ t[3] <= days_in_month(t[1], t[2])
                    /\ ymd_to_ord(t[1], t[2], t[3]) = ordinal}
    IN  IF hits = {} THEN InvalidDate
        ELSE LET t == CHOOSE x \in hits : TRUE IN Date(t[1], t[2], t[3])

iso_week1_monday(year) ==
    LET first_day == ymd_to_ord(year, 1, 1)
        first_weekday == (first_day + 6) % 7
        week1_monday == first_day - first_weekday
    IN  IF first_weekday > 3 THEN week1_monday + 7 ELSE week1_monday

iso_to_ymd(iso_year, iso_week, iso_day) ==
    IF iso_year < 1 \/ iso_year > 9999 THEN InvalidDate
    ELSE IF (iso_week <= 0 \/ iso_week >= 53)
            /\ ~( /\ iso_week = 53
                  /\ LET first_weekday == weekday(iso_year, 1, 1)
                     IN  first_weekday = 3 \/ (first_weekday = 2 /\ is_leap(iso_year)) )
    THEN InvalidDate
    ELSE IF iso_day <= 0 \/ iso_day >= 8 THEN InvalidDate
    ELSE ord_to_ymd(iso_week1_monday(iso_year) + (iso_week - 1) * 7 + iso_day - 1,
                    iso_year)

\* The number of characters of the date part, 0 for a text that has none.
find_isoformat_datetime_separator(s) ==
    LET n == Len(s)
    IN  IF n = 7 THEN 7
        ELSE IF s[5] = "-"
        THEN IF s[6] = "W"
             THEN IF n < 8 THEN 0
                  ELSE IF n > 8 /\ s[9] = "-"
                  THEN IF n = 9 THEN 0
                       ELSE IF n > 10 /\ AsciiDigit(s[11]) THEN 8
                       ELSE 10
                  ELSE 8
             ELSE 10
        ELSE IF s[5] = "W"
        THEN LET stops == {i \in 7..(n - 1) : ~AsciiDigit(s[i + 1])} \cup {n}
                 idx == CHOOSE i \in stops : \A j \in stops : i <= j
             IN  IF idx < 9 THEN idx
                 ELSE IF idx % 2 = 0 THEN 7
                 ELSE 8
        ELSE 8

\* YYYY-MM-DD, YYYYMMDD, YYYY-Www, YYYYWww, YYYY-Www-D, YYYYWwwD
parse_isoformat_date(d) ==
    IF ~DigitsAt(d, 1, 4) THEN InvalidDate
    ELSE
        LET year == NumAt(d, 1, 4)
            uses_separator == At(d, 5) = "-"
            p == IF uses_separator THEN 6 ELSE 5
        IN  IF At(d, p) = "W"
            THEN IF ~DigitsAt(d, p + 1, 2) THEN InvalidDate
                 ELSE LET iso_week == NumAt(d, p + 1, 2)
                          q == p + 3
                          r == IF uses_separator THEN q + 1 ELSE q
                      IN  IF q > Len(d) THEN iso_to_ymd(year, iso_week, 1)
                          ELSE IF uses_separator /\ At(d, q) # "-" THEN InvalidDate
                          ELSE IF ~DigitsAt(d, r, 1) THEN InvalidDate
                          ELSE iso_to_ymd(year, iso_week, NumAt(d, r, 1))
            ELSE IF ~DigitsAt(d, p, 2) THEN InvalidDate
                 ELSE LET q == p + 2
                          r == IF uses_separator THEN q + 1 ELSE q
                      IN  IF uses_separator /\ At(d, q) # "-" THEN InvalidDate
                          ELSE IF ~DigitsAt(d, r, 2) THEN InvalidDate
                          ELSE Date(year, NumAt(d, p, 2), NumAt(d, r, 2))

\* The result of parse_hh_mm_ss_ff: rv < 0 for a malformed text, 1 when
\* characters are left over, 0 otherwise.
TimeResult(rv, vals, microsecond) ==
    [rv |-> rv, hour |-> vals[1], minute |-> vals[2], second |-> vals[3],
     microsecond |-> microsecond]

Correction == <<100000, 10000, 1000, 100, 10, 1>>

\* The fraction of parse_hh_mm_ss_ff, from position p up to p_end.
ParseFraction(tstr, p, p_end, vals) ==
    LET len_remains == p_end - p
        to_parse == IF len_remains >= 6 THEN 6 ELSE len_remains
    IN  IF ~DigitsAt(tstr, p, to_parse) THEN TimeResult(-3, vals, 0)
        ELSE LET microsecond == NumAt(tstr, p, to_parse) * Correction[to_parse]
                 stops == {i \in (p + to_parse)..(Len(tstr) + 1) :
                              ~AsciiDigit(At(tstr, i))}
                 q == CHOOSE i \in stops : \A j \in stops : i <= j
             IN  TimeResult(IF At(tstr, q) # NUL THEN 1 ELSE 0, vals, microsecond)

\* The loop of parse_hh_mm_ss_ff over hour, minute and second, at its round i.
RECURSIVE ParseFields(_, _, _, _, _, _)
ParseFields(tstr, p, p_end, i, has_separator, vals) ==
    IF i = 3 THEN ParseFraction(tstr, p, p_end, vals)
    ELSE IF ~DigitsAt(tstr, p, 2) THEN TimeResult(-3, vals, 0)
    ELSE
        LET read == [vals EXCEPT ![i + 1] = NumAt(tstr, p, 2)]
            c == At(tstr, p + 2)
            next == p + 3
            sep == IF i = 0 THEN c = ":" ELSE has_separator
        IN  IF next >= p_end THEN TimeResult(IF c # NUL THEN 1 ELSE 0, read, 0)
            ELSE IF sep /\ c = ":" THEN ParseFields(tstr, next, p_end, i + 1, sep, read)
            ELSE IF c = "." \/ c = "," THEN ParseFraction(tstr, next, p_end, read)
            ELSE IF ~sep THEN ParseFields(tstr, next - 1, p_end, i + 1, sep, read)
            ELSE TimeResult(-4, read, 0)

parse_hh_mm_ss_ff(tstr, p, p_end) == ParseFields(tstr, p, p_end, 0, TRUE, <<0, 0, 0>>)

\* The characters UTF-8 writes in two bytes.
TwoByteChars == {chr(n) : n \in 128..2047}

\* The number of bytes of a character in UTF-8; a character beyond U+FFFF has
\* more than four hexadecimal digits in its unit.
Utf8Len(c) ==
    IF c \in Ascii THEN 1
    ELSE IF c \in TwoByteChars THEN 2
    ELSE IF Len(c) <= 6 THEN 3
    ELSE 4

\* The text as the bytes the parser walks through: a character outside ASCII
\* stands once for each of its bytes, none of which is an ASCII byte.  Only a
\* text that can be encoded has bytes (see Encodable).
RECURSIVE Bytes(_)
Bytes(s) ==
    IF s = <<>> THEN <<>>
    ELSE [i \in 1..Utf8Len(s[1]) |-> s[1]] \o Bytes(Tail(s))

\* parse_isoformat_time and the range checks of the datetime constructor on
\* its result: whether the time part is accepted.
TimeAccepted(tstr) ==
    LET marks == {i \in 1..Len(tstr) : tstr[i] \in {"Z", "+", "-"}}
        tzinfo_pos == IF marks = {} THEN Len(tstr) + 1
                      ELSE CHOOSE i \in marks : \A j \in marks : i <= j
        t == parse_hh_mm_ss_ff(tstr, 1, tzinfo_pos)
        in_range == t.hour < 24 /\ t.minute < 60 /\ t.second < 60
    IN  IF t.rv < 0 THEN FALSE
        ELSE IF marks = {} THEN t.rv = 0 /\ in_range
        ELSE IF tstr[tzinfo_pos] = "Z" THEN At(tstr, tzinfo_pos + 1) = NUL /\ in_range
        ELSE LET tz == parse_hh_mm_ss_ff(tstr, tzinfo_pos + 1, Len(tstr) + 1)
                 \* the offset must stay below 24 hours, microseconds included
                 offset == tz.hour * 3600 + tz.minute * 60 + tz.second
             IN  tz.rv = 0 /\ in_range /\ offset < 86400

\* The surrogates, which UTF-8 cannot encode.
Surrogates == {chr(n) : n \in 55296..57343}

\* _sanitize_isoformat_str: of the places a separator can stand at (the
\* eighth, ninth and eleventh character), the first that holds a surrogate
\* gets a "T".
sanitize_isoformat_str(s) ==
    LET places == {i \in {8, 9, 11} : i <= Len(s) /\ s[i] \in Surrogates}
    IN  IF places = {} THEN s
        ELSE [s EXCEPT ![CHOOSE i \in places : \A j \in places : i <= j] = "T"]

\* Whether UTF-8 encodes the text: a text with a surrogate it does not, and
\* the parser raises.
Encodable(s) == \A i \in 1..Len(s) : s[i] \notin Surrogates

\* datetime.fromisoformat(s), to the day; InvalidDate where it raises
\* ValueError.  The parser works on the bytes of the sanitized text.
fromisoformat(s) ==
    IF Len(s) < 7 THEN InvalidDate
    ELSE IF ~Encodable(sanitize_isoformat_str(s)) THEN InvalidDate
    ELSE LET dt == Bytes(sanitize_isoformat_str(s))
             separator_location == find_isoformat_datetime_separator(dt)
         IN  IF separator_location = 0 THEN InvalidDate
             ELSE LET len == IF separator_location < Len(dt)
                             THEN separator_location ELSE Len(dt)
                      date == parse_isoformat_date(SubSeq(dt, 1, len))
                      \* the separator is skipped by the length its first byte tells
                      skip == Utf8Len(At(dt, separator_location + 1))
                      tstr == SubSeq(dt, separator_location + 1 + skip, Len(dt))
                  IN  IF \/ date = InvalidDate
                         \/ date.year < 1 \/ date.year > 9999
                         \/ date.month < 1 \/ date.month > 12
                         \/ date.day < 1
                         \/ date.day > days_in_month(date.year, date.month)
                      THEN InvalidDate
                      ELSE IF Len(dt) > separator_location /\ ~TimeAccepted(tstr)
                      THEN InvalidDate
                      ELSE date

\* Whether datetime.fromisoformat(s) parses s (otherwise it raises ValueError).
IsIsoFormat(s) == fromisoformat(s) # InvalidDate

\* ------------------------------------------------------------------- store
Name(x) == <<x>>

expected_headers ==
    <<Name("url"), Name("timestamp"), Name("news_api_requests"),
      Name("tweets_today"), Name("tweets_this_month"), Name("last_tweet_time")>>

\* The state load_data returns for an empty or header-only sheet, and on error.
ZeroState ==
    [posted_articles |-> <<>>, news_api_requests |-> 0, tweets_today |-> 0,
     tweets_this_month |-> 0, last_tweet_time |-> None]

\* `int(cell) if cell.isdigit() else 0`, for a cell on which int() does not
\* raise.
ParseCounter(cell) == IF isdigit(cell) THEN int(cell) ELSE 0

\* `[row[url_index] for row in data if row[url_index]]`
RECURSIVE PostedArticles(_, _)
PostedArticles(rows, url_index) ==
    IF rows = <<>> THEN <<>>
    ELSE IF rows[1][url_index] # <<>>
         THEN <<rows[1][url_index]>> \o PostedArticles(Tail(rows), url_index)
         ELSE PostedArticles(Tail(rows), url_index)

\* load_data without the initialisation of an empty sheet.
LoadWritesHeader_never(all_data) == FALSE

\* Whether load_data appends the header row: the sheet has no rows at all.
LoadWritesHeader(all_data) == all_data = <<>>

\* The dict load_data returns for the rows get_all_values() gave.
LoadedState(all_data) ==
    IF all_data = <<>> THEN ZeroState
    ELSE IF Len(all_data) = 1 THEN ZeroState
    ELSE
        LET headers == all_data[1]
            data == Tail(all_data)
            url_index == Index(headers, Name("url"))
            news_api_requests_index == Index(headers, Name("news_api_requests"))
            tweets_today_index == Index(headers, Name("tweets_today"))
            tweets_this_month_index == Index(headers, Name("tweets_this_month"))
            last_tweet_time_index == Index(headers, Name("last_tweet_time"))
            indexes == {url_index, news_api_requests_index, tweets_today_index,
                        tweets_this_month_index, last_tweet_time_index}
            last_row == data[Len(data)]
            counters == {news_api_requests_index, tweets_today_index,
                         tweets_this_month_index}
        IN  IF \/ \E i \in indexes : i > Len(headers)
               \/ \E k \in 1..Len(data) : url_index > Len(data[k])
               \/ \E i \in indexes : i > Len(last_row)
               \/ \E i \in counters : isdigit(last_row[i]) /\ IntRaises(last_row[i])
            THEN ZeroState
            ELSE [posted_articles |-> PostedArticles(data, url_index),
                  news_api_requests |-> ParseCounter(last_row[news_api_requests_index]),
                  tweets_today |-> ParseCounter(last_row[tweets_today_index]),
                  tweets_this_month |-> ParseCounter(last_row[tweets_this_month_index]),
                  last_tweet_time |->
                      IF last_row[last_tweet_time_index] # <<>>
                      THEN last_row[last_tweet_time_index] ELSE None]

\* A row put in front of the rows of the sheet.
append_row_on_top(rows, row) == <<row>> \o rows

\* sheet.append_row: the row goes after the last row of the sheet.
append_row(rows, row) == Append(rows, row)

\* A value as append_row stores it and get_all_values() gives it back.
Cell(v) == IF v = None THEN <<>> ELSE v

\* The row save_data appends.
SavedRow(data, url, now) ==
    <<Cell(url), isoformat(now), str(data.news_api_requests), str(data.tweets_today),
      str(data.tweets_this_month), Cell(data.last_tweet_time)>>

DataRows(rows) == IF rows = <<>> THEN <<>> ELSE Tail(rows)

\* ------------------------------------------------------------ quota tracker
\* The request limit tested with > for >=.
can_fetch_strict(data) == ~(data.news_api_requests > FetchLimit)

\* get_news: the request budget still allows a query.
can_fetch(data) == ~(data.news_api_requests >= FetchLimit)

\* post_tweet going to its limits without the resets.
rollover_skipped(data, current_time) == data

\* The resets with the day of the month compared in place of the date.
rollover_day_of_month(data, current_time) ==
    IF Truthy(data.last_tweet_time)
    THEN LET last_tweet == fromisoformat(data.last_tweet_time)
             d1 == IF current_time.day # last_tweet.day
                   THEN [data EXCEPT !.tweets_today = 0] ELSE data
         IN  IF current_time.month # last_tweet.month
             THEN [d1 EXCEPT !.tweets_this_month = 0] ELSE d1
    ELSE data

\* The day reset written as `-= 1` for `= 0`.
rollover_decrement(data, current_time) ==
    IF Truthy(data.last_tweet_time)
    THEN LET last_tweet == fromisoformat(data.last_tweet_time)
             d1 == IF Date(current_time.year, current_time.month, current_time.day)
                        # Date(last_tweet.year, last_tweet.month, last_tweet.day)
                   THEN [data EXCEPT !.tweets_today = IF @ > 0 THEN @ - 1 ELSE 0]
                   ELSE data
         IN  IF current_time.month # last_tweet.month
             THEN [d1 EXCEPT !.tweets_this_month = 0] ELSE d1
    ELSE data

\* post_tweet: the window resets computed from last_tweet_time.
rollover(data, current_time) ==
    IF Truthy(data.last_tweet_time)
    THEN LET last_tweet == fromisoformat(data.last_tweet_time)
             d1 == IF Date(current_time.year, current_time.month, current_time.day)
                        # Date(last_tweet.year, last_tweet.month, last_tweet.day)
                   THEN [data EXCEPT !.tweets_today = 0] ELSE data
         IN  IF current_time.month # last_tweet.month
             THEN [d1 EXCEPT !.tweets_this_month = 0] ELSE d1
    ELSE data

\* The post limits tested with > for >=.
can_post_strict(data) ==
    ~(data.tweets_today > DailyLimit) /\ ~(data.tweets_this_month > MonthlyLimit)

\* post_tweet: neither the daily nor the monthly limit is reached.
can_post(data) ==
    ~(data.tweets_today >= DailyLimit) /\ ~(data.tweets_this_month >= MonthlyLimit)

\* The bookkeeping without the time of the publish.
record_post_no_time(data, current_time) ==
    [data EXCEPT !.tweets_today = @ + 1, !.tweets_this_month = @ + 1]

\* post_tweet: the bookkeeping of a successful publish.
record_post(data, current_time) ==
    [data EXCEPT !.tweets_today = @ + 1, !.tweets_this_month = @ + 1,
                 !.last_tweet_time = isoformat(current_time)]

\* ----------------------------------------------------------- article filter
RemovedMarker == "[Removed]"
CookieMarker == "If you click 'Accept all', we and our partners"

\* The filter without the test of the url against the posted ones.
is_valid_article_no_dedup(article, posted_articles) ==
    LET title == Get(article, "title", <<>>)
        description == Get(article, "description", <<>>)
        content == Get(article, "content", <<>>)
    IN  IF ~Truthy(title) \/ ~Truthy(description) \/ ~Truthy(content)
        THEN FALSE
        ELSE IF Contains(title, RemovedMarker) THEN FALSE
        ELSE IF Contains(description, CookieMarker) \/ Contains(content, CookieMarker)
             THEN FALSE
        ELSE TRUE

is_valid_article(article, posted_articles) ==
    LET title == Get(article, "title", <<>>)
        description == Get(article, "description", <<>>)
        content == Get(article, "content", <<>>)
        url == Get(article, "url", <<>>)
    IN  IF \/ ~Truthy(title) \/ ~Truthy(description) \/ ~Truthy(content)
           \/ \E i \in 1..Len(posted_articles) : posted_articles[i] = url
        THEN FALSE
        ELSE IF Contains(title, RemovedMarker) THEN FALSE
        ELSE IF Contains(description, CookieMarker) \/ Contains(content, CookieMarker)
             THEN FALSE
        ELSE TRUE

\* ------------------------------------------------------------ post composer
\* summarize_text over the sentences the NLP model found in the text.
RECURSIVE SummarizeFrom(_, _, _)
SummarizeFrom(sentences, summary, max_length) ==
    IF sentences = <<>> THEN summary
    ELSE IF Len(summary) + Len(sentences[1]) <= max_length
         THEN SummarizeFrom(Tail(sentences), summary \o sentences[1] \o <<" ">>, max_length)
         ELSE summary

\* The characters str.isspace() accepts, which strip(), split() and \\s take
\* for white space.
Whitespace ==
    {chr(n) : n \in (9..13) \cup (28..32) \cup {133, 160, 5760} \cup (8192..8202)
                       \cup {8232, 8233, 8239, 8287, 12288}}

\* str.strip(): the white space at both ends goes.
RECURSIVE Strip(_)
Strip(s) ==
    IF s = <<>> THEN s
    ELSE IF s[1] \in Whitespace THEN Strip(Tail(s))
    ELSE IF s[Len(s)] \in Whitespace THEN Strip(SubSeq(s, 1, Len(s) - 1))
    ELSE s

summarize_text(sentences, max_length) == Strip(SummarizeFrom(sentences, <<>>, max_length))

\* ---------------------------------------------------------------- hashtags
\* The tables of the Unicode database the interpreter carries (Unicode
\* 14.0.0), as code points.  A range is <<first, last>>.
\* The characters \\w matches: the alphanumeric characters and the underscore.
WordRanges ==
    {<<48, 57>>, <<65, 90>>, <<95, 95>>, <<97, 122>>, <<170, 170>>, <<178, 179>>, <<181, 181>>,
     <<185, 186>>, <<188, 190>>, <<192, 214>>, <<216, 246>>, <<248, 705>>, <<710, 721>>,
     <<736, 740>>, <<748, 748>>, <<750, 750>>, <<880, 884>>, <<886, 887>>, <<890, 893>>,
     <<895, 895>>, <<902, 902>>, <<904, 906>>, <<908, 908>>, <<910, 929>>, <<931, 1013>>,
     <<1015, 1153>>, <<1162, 1327>>, <<1329, 1366>>, <<1369, 1369>>, <<1376, 1416>>,
     <<1488, 1514>>, <<1519, 1522>>, <<1568, 1610>>, <<1632, 1641>>, <<1646, 1647>>,
     <<1649, 1747>>, <<1749, 1749>>, <<1765, 1766>>, <<1774, 1788>>, <<1791, 1791>>,
     <<1808, 1808>>, <<1810, 1839>>, <<1869, 1957>>, <<1969, 1969>>, <<1984, 2026>>,
     <<2036, 2037>>, <<2042, 2042>>, <<2048, 2069>>, <<2074, 2074>>, <<2084, 2084>>,
     <<2088, 2088>>, <<2112, 2136>>, <<2144, 2154>>, <<2160, 2183>>, <<2185, 2190>>,
     <<2208, 2249>>, <<2308, 2361>>, <<2365, 2365>>, <<2384, 2384>>, <<2392, 2401>>,
     <<2406, 2415>>, <<2417, 2432>>, <<2437, 2444>>, <<2447, 2448>>, <<2451, 2472>>,
     <<2474, 2480>>, <<2482, 2482>>, <<2486, 2489>>, <<2493, 2493>>, <<2510, 2510>>,
     <<2524, 2525>>, <<2527, 2529>>, <<2534, 2545>>, <<2548, 2553>>, <<2556, 2556>>,
     <<2565, 2570>>, <<2575, 2576>>, <<2579, 2600>>, <<2602, 2608>>, <<2610, 2611>>,
     <<2613, 2614>>, <<2616, 2617>>, <<2649, 2652>>, <<2654, 2654>>, <<2662, 2671>>,
     <<2674, 2676>>, <<2693, 2701>>, <<2703, 2705>>, <<2707, 2728>>, <<2730, 2736>>,
     <<2738, 2739>>, <<2741, 2745>>, <<2749, 2749>>, <<2768, 2768>>, <<2784, 2785>>,
     <<2790, 2799>>, <<2809, 2809>>, <<2821, 2828>>, <<2831, 2832>>, <<2835, 2856>>,
     <<2858, 2864>>, <<2866, 2867>>, <<2869, 2873>>, <<2877, 2877>>, <<2908, 2909>>,
     <<2911, 2913>>, <<2918, 2927>>, <<2929, 2935>>, <<2947, 2947>>, <<2949, 2954>>,
     <<2958, 2960>>, <<2962, 2965>>, <<2969, 2970>>, <<2972, 2972>>, <<2974, 2975>>,
     <<2979, 2980>>, <<2984, 2986>>, <<2990, 3001>>, <<3024, 3024>>, <<3046, 3058>>,
     <<3077, 3084>>, <<3086, 3088>>, <<3090, 3112>>, <<3114, 3129>>, <<3133, 3133>>,
     <<3160, 3162>>, <<3165, 3165>>, <<3168, 3169>>, <<3174, 3183>>, <<3192, 3198>>,
     <<3200, 3200>>, <<3205, 3212>>, <<3214, 3216>>, <<3218, 3240>>, <<3242, 3251>>,
     <<3253, 3257>>, <<3261, 3261>>, <<3293, 3294>>, <<3296, 3297>>, <<3302, 3311>>,
     <<3313, 3314>>, <<3332, 3340>>, <<3342, 3344>>, <<3346, 3386>>, <<3389, 3389>>,
     <<3406, 3406>>, <<3412, 3414>>, <<3416, 3425>>, <<3430, 3448>>, <<3450, 3455>>,
     <<3461, 3478>>, <<3482, 3505>>, <<3507, 3515>>, <<3517, 3517>>, <<3520, 3526>>,
     <<3558, 3567>>, <<3585, 3632>>, <<3634, 3635>>, <<3648, 3654>>, <<3664, 3673>>,
     <<3713, 3714>>, <<3716, 3716>>, <<3718, 3722>>, <<3724, 3747>>, <<3749, 3749>>,
     <<3751, 3760>>, <<3762, 3763>>, <<3773, 3773>>, <<3776, 3780>>, <<3782, 3782>>,
     <<3792, 3801>>, <<3804, 3807>>, <<3840, 3840>>, <<3872, 3891>>, <<3904, 3911>>,
     <<3913, 3948>>, <<3976, 3980>>, <<4096, 4138>>, <<4159, 4169>>, <<4176, 4181>>,
     <<4186, 4189>>, <<4193, 4193>>, <<4197, 4198>>, <<4206, 4208>>, <<4213, 4225>>,
     <<4238, 4238>>, <<4240, 4249>>, <<4256, 4293>>, <<4295, 4295>>, <<4301, 4301>>,
     <<4304, 4346>>, <<4348, 4680>>, <<4682, 4685>>, <<4688, 4694>>, <<4696, 4696>>,
     <<4698, 4701>>, <<4704, 4744>>, <<4746, 4749>>, <<4752, 4784>>, <<4786, 4789>>,
     <<4792, 4798>>, <<4800, 4800>>, <<4802, 4805>>, <<4808, 4822>>, <<4824, 4880>>,
     <<4882, 4885>>, <<4888, 4954>>, <<4969, 4988>>, <<4992, 5007>>, <<5024, 5109>>,
     <<5112, 5117>>, <<5121, 5740>>, <<5743, 5759>>, <<5761, 5786>>, <<5792, 5866>>,
     <<5870, 5880>>, <<5888, 5905>>, <<5919, 5937>>, <<5952, 5969>>, <<5984, 5996>>,
     <<5998, 6000>>, <<6016, 6067>>, <<6103, 6103>>, <<6108, 6108>>, <<6112, 6121>>,
     <<6128, 6137>>, <<6160, 6169>>, <<6176, 6264>>, <<6272, 6276>>, <<6279, 6312>>,
     <<6314, 6314>>, <<6320, 6389>>, <<6400, 6430>>, <<6470, 6509>>, <<6512, 6516>>,
     <<6528, 6571>>, <<6576, 6601>>, <<6608, 6618>>, <<6656, 6678>>, <<6688, 6740>>,
     <<6784, 6793>>, <<6800, 6809>>, <<6823, 6823>>, <<6917, 6963>>, <<6981, 6988>>,
     <<6992, 7001>>, <<7043, 7072>>, <<7086, 7141>>, <<7168, 7203>>, <<7232, 7241>>,
     <<7245, 7293>>, <<7296, 7304>>, <<7312, 7354>>, <<7357, 7359>>, <<7401, 7404>>,
     <<7406, 7411>>, <<7413, 7414>>, <<7418, 7418>>, <<7424, 7615>>, <<7680, 7957>>,
     <<7960, 7965>>, <<7968, 8005>>, <<8008, 8013>>, <<8016, 8023>>, <<8025, 8025>>,
     <<8027, 8027>>, <<8029, 8029>>, <<8031, 8061>>, <<8064, 8116>>, <<8118, 8124>>,
     <<8126, 8126>>, <<8130, 8132>>, <<8134, 8140>>, <<8144, 8147>>, <<8150, 8155>>,
     <<8160, 8172>>, <<8178, 8180>>, <<8182, 8188>>, <<8304, 8305>>, <<8308, 8313>>,
     <<8319, 8329>>, <<8336, 8348>>, <<8450, 8450>>, <<8455, 8455>>, <<8458, 8467>>,
     <<8469, 8469>>, <<8473, 8477>>, <<8484, 8484>>, <<8486, 8486>>, <<8488, 8488>>,
     <<8490, 8493>>, <<8495, 8505>>, <<8508, 8511>>, <<8517, 8521>>, <<8526, 8526>>,
     <<8528, 8585>>, <<9312, 9371>>, <<9450, 9471>>, <<10102, 10131>>, <<11264, 11492>>,
     <<11499, 11502>>, <<11506, 11507>>, <<11517, 11517>>, <<11520, 11557>>, <<11559, 11559>>,
     <<11565, 11565>>, <<11568, 11623>>, <<11631, 11631>>, <<11648, 11670>>, <<11680, 11686>>,
     <<11688, 11694>>, <<11696, 11702>>, <<11704, 11710>>, <<11712, 11718>>, <<11720, 11726>>,
     <<11728, 11734>>, <<11736, 11742>>, <<11823, 11823>>, <<12293, 12295>>, <<12321, 12329>>,
     <<12337, 12341>>, <<12344, 12348>>, <<12353, 12438>>, <<12445, 12447>>, <<12449, 12538>>,
     <<12540, 12543>>, <<12549, 12591>>, <<12593, 12686>>, <<12690, 12693>>, <<12704, 12735>>,
     <<12784, 12799>>, <<12832, 12841>>, <<12872, 12879>>, <<12881, 12895>>, <<12928, 12937>>,
     <<12977, 12991>>, <<13312, 19903>>, <<19968, 42124>>, <<42192, 42237>>, <<42240, 42508>>,
     <<42512, 42539>>, <<42560, 42606>>, <<42623, 42653>>, <<42656, 42735>>, <<42775, 42783>>,
     <<42786, 42888>>, <<42891, 42954>>, <<42960, 42961>>, <<42963, 42963>>, <<42965, 42969>>,
     <<42994, 43009>>, <<43011, 43013>>, <<43015, 43018>>, <<43020, 43042>>, <<43056, 43061>>,
     <<43072, 43123>>, <<43138, 43187>>, <<43216, 43225>>, <<43250, 43255>>, <<43259, 43259>>,
     <<43261, 43262>>, <<43264, 43301>>, <<43312, 43334>>, <<43360, 43388>>, <<43396, 43442>>,
     <<43471, 43481>>, <<43488, 43492>>, <<43494, 43518>>, <<43520, 43560>>, <<43584, 43586>>,
     <<43588, 43595>>, <<43600, 43609>>, <<43616, 43638>>, <<43642, 43642>>, <<43646, 43695>>,
     <<43697, 43697>>, <<43701, 43702>>, <<43705, 43709>>, <<43712, 43712>>, <<43714, 43714>>,
     <<43739, 43741>>, <<43744, 43754>>, <<43762, 43764>>, <<43777, 43782>>, <<43785, 43790>>,
     <<43793, 43798>>, <<43808, 43814>>, <<43816, 43822>>, <<43824, 43866>>, <<43868, 43881>>,
     <<43888, 44002>>, <<44016, 44025>>, <<44032, 55203>>, <<55216, 55238>>, <<55243, 55291>>,
     <<63744, 64109>>, <<64112, 64217>>, <<64256, 64262>>, <<64275, 64279>>, <<64285, 64285>>,
     <<64287, 64296>>, <<64298, 64310>>, <<64312, 64316>>, <<64318, 64318>>, <<64320, 64321>>,
     <<64323, 64324>>, <<64326, 64433>>, <<64467, 64829>>, <<64848, 64911>>, <<64914, 64967>>,
     <<65008, 65019>>, <<65136, 65140>>, <<65142, 65276>>, <<65296, 65305>>, <<65313, 65338>>,
     <<65345, 65370>>, <<65382, 65470>>, <<65474, 65479>>, <<65482, 65487>>, <<65490, 65495>>,
     <<65498, 65500>>, <<65536, 65547>>, <<65549, 65574>>, <<65576, 65594>>, <<65596, 65597>>,
     <<65599, 65613>>, <<65616, 65629>>, <<65664, 65786>>, <<65799, 65843>>, <<65856, 65912>>,
     <<65930, 65931>>, <<66176, 66204>>, <<66208, 66256>>, <<66273, 66299>>, <<66304, 66339>>,
     <<66349, 66378>>, <<66384, 66421>>, <<66432, 66461>>, <<66464, 66499>>, <<66504, 66511>>,
     <<66513, 66517>>, <<66560, 66717>>, <<66720, 66729>>, <<66736, 66771>>, <<66776, 66811>>,
     <<66816, 66855>>, <<66864, 66915>>, <<66928, 66938>>, <<66940, 66954>>, <<66956, 66962>>,
     <<66964, 66965>>, <<66967, 66977>>, <<66979, 66993>>, <<66995, 67001>>, <<67003, 67004>>,
     <<67072, 67382>>, <<67392, 67413>>, <<67424, 67431>>, <<67456, 67461>>, <<67463, 67504>>,
     <<67506, 67514>>, <<67584, 67589>>, <<67592, 67592>>, <<67594, 67637>>, <<67639, 67640>>,
     <<67644, 67644>>, <<67647, 67669>>, <<67672, 67702>>, <<67705, 67742>>, <<67751, 67759>>,
     <<67808, 67826>>, <<67828, 67829>>, <<67835, 67867>>, <<67872, 67897>>, <<67968, 68023>>,
     <<68028, 68047>>, <<68050, 68096>>, <<68112, 68115>>, <<68117, 68119>>, <<68121, 68149>>,
     <<68160, 68168>>, <<68192, 68222>>, <<68224, 68255>>, <<68288, 68295>>, <<68297, 68324>>,
     <<68331, 68335>>, <<68352, 68405>>, <<68416, 68437>>, <<68440, 68466>>, <<68472, 68497>>,
     <<68521, 68527>>, <<68608, 68680>>, <<68736, 68786>>, <<68800, 68850>>, <<68858, 68899>>,
     <<68912, 68921>>, <<69216, 69246>>, <<69248, 69289>>, <<69296, 69297>>, <<69376, 69415>>,
     <<69424, 69445>>, <<69457, 69460>>, <<69488, 69505>>, <<69552, 69579>>, <<69600, 69622>>,
     <<69635, 69687>>, <<69714, 69743>>, <<69745, 69746>>, <<69749, 69749>>, <<69763, 69807>>,
     <<69840, 69864>>, <<69872, 69881>>, <<69891, 69926>>, <<69942, 69951>>, <<69956, 69956>>,
     <<69959, 69959>>, <<69968, 70002>>, <<70006, 70006>>, <<70019, 70066>>, <<70081, 70084>>,
     <<70096, 70106>>, <<70108, 70108>>, <<70113, 70132>>, <<70144, 70161>>, <<70163, 70187>>,
     <<70272, 70278>>, <<70280, 70280>>, <<70282, 70285>>, <<70287, 70301>>, <<70303, 70312>>,
     <<70320, 70366>>, <<70384, 70393>>, <<70405, 70412>>, <<70415, 70416>>, <<70419, 70440>>,
     <<70442, 70448>>, <<70450, 70451>>, <<70453, 70457>>, <<70461, 70461>>, <<70480, 70480>>,
     <<70493, 70497>>, <<70656, 70708>>, <<70727, 70730>>, <<70736, 70745>>, <<70751, 70753>>,
     <<70784, 70831>>, <<70852, 70853>>, <<70855, 70855>>, <<70864, 70873>>, <<71040, 71086>>,
     <<71128, 71131>>, <<71168, 71215>>, <<71236, 71236>>, <<71248, 71257>>, <<71296, 71338>>,
     <<71352, 71352>>, <<71360, 71369>>, <<71424, 71450>>, <<71472, 71483>>, <<71488, 71494>>,
     <<71680, 71723>>, <<71840, 71922>>, <<71935, 71942>>, <<71945, 71945>>, <<71948, 71955>>,
     <<71957, 71958>>, <<71960, 71983>>, <<71999, 71999>>, <<72001, 72001>>, <<72016, 72025>>,
     <<72096, 72103>>, <<72106, 72144>>, <<72161, 72161>>, <<72163, 72163>>, <<72192, 72192>>,
     <<72203, 72242>>, <<72250, 72250>>, <<72272, 72272>>, <<72284, 72329>>, <<72349, 72349>>,
     <<72368, 72440>>, <<72704, 72712>>, <<72714, 72750>>, <<72768, 72768>>, <<72784, 72812>>,
     <<72818, 72847>>, <<72960, 72966>>, <<72968, 72969>>, <<72971, 73008>>, <<73030, 73030>>,
     <<73040, 73049>>, <<73056, 73061>>, <<73063, 73064>>, <<73066, 73097>>, <<73112, 73112>>,
     <<73120, 73129>>, <<73440, 73458>>, <<73648, 73648>>, <<73664, 73684>>, <<73728, 74649>>,
     <<74752, 74862>>, <<74880, 75075>>, <<77712, 77808>>, <<77824, 78894>>, <<82944, 83526>>,
     <<92160, 92728>>, <<92736, 92766>>, <<92768, 92777>>, <<92784, 92862>>, <<92864, 92873>>,
     <<92880, 92909>>, <<92928, 92975>>, <<92992, 92995>>, <<93008, 93017>>, <<93019, 93025>>,
     <<93027, 93047>>, <<93053, 93071>>, <<93760, 93846>>, <<93952, 94026>>, <<94032, 94032>>,
     <<94099, 94111>>, <<94176, 94177>>, <<94179, 94179>>, <<94208, 100343>>,
     <<100352, 101589>>, <<101632, 101640>>, <<110576, 110579>>, <<110581, 110587>>,
     <<110589, 110590>>, <<110592, 110882>>, <<110928, 110930>>, <<110948, 110951>>,
     <<110960, 111355>>, <<113664, 113770>>, <<113776, 113788>>, <<113792, 113800>>,
     <<113808, 113817>>, <<119520, 119539>>, <<119648, 119672>>, <<119808, 119892>>,
     <<119894, 119964>>, <<119966, 119967>>, <<119970, 119970>>, <<119973, 119974>>,
     <<119977, 119980>>, <<119982, 119993>>, <<119995, 119995>>, <<119997, 120003>>,
     <<120005, 120069>>, <<120071, 120074>>, <<120077, 120084>>, <<120086, 120092>>,
     <<120094, 120121>>, <<120123, 120126>>, <<120128, 120132>>, <<120134, 120134>>,
     <<120138, 120144>>, <<120146, 120485>>, <<120488, 120512>>, <<120514, 120538>>,
     <<120540, 120570>>, <<120572, 120596>>, <<120598, 120628>>, <<120630, 120654>>,
     <<120656, 120686>>, <<120688, 120712>>, <<120714, 120744>>, <<120746, 120770>>,
     <<120772, 120779>>, <<120782, 120831>>, <<122624, 122654>>, <<123136, 123180>>,
     <<123191, 123197>>, <<123200, 123209>>, <<123214, 123214>>, <<123536, 123565>>,
     <<123584, 123627>>, <<123632, 123641>>, <<124896, 124902>>, <<124904, 124907>>,
     <<124909, 124910>>, <<124912, 124926>>, <<124928, 125124>>, <<125127, 125135>>,
     <<125184, 125251>>, <<125259, 125259>>, <<125264, 125273>>, <<126065, 126123>>,
     <<126125, 126127>>, <<126129, 126132>>, <<126209, 126253>>, <<126255, 126269>>,
     <<126464, 126467>>, <<126469, 126495>>, <<126497, 126498>>, <<126500, 126500>>,
     <<126503, 126503>>, <<126505, 126514>>, <<126516, 126519>>, <<126521, 126521>>,
     <<126523, 126523>>, <<126530, 126530>>, <<126535, 126535>>, <<126537, 126537>>,
     <<126539, 126539>>, <<126541, 126543>>, <<126545, 126546>>, <<126548, 126548>>,
     <<126551, 126551>>, <<126553, 126553>>, <<126555, 126555>>, <<126557, 126557>>,
     <<126559, 126559>>, <<126561, 126562>>, <<126564, 126564>>, <<126567, 126570>>,
     <<126572, 126578>>, <<126580, 126583>>, <<126585, 126588>>, <<126590, 126590>>,
     <<126592, 126601>>, <<126603, 126619>>, <<126625, 126627>>, <<126629, 126633>>,
     <<126635, 126651>>, <<127232, 127244>>, <<130032, 130041>>, <<131072, 173791>>,
     <<173824, 177976>>, <<177984, 178205>>, <<178208, 183969>>, <<183984, 191456>>,
     <<194560, 195101>>, <<196608, 201546>>}

\* The characters with the property Cased.
CasedRanges ==
    {<<65, 90>>, <<97, 122>>, <<170, 170>>, <<181, 181>>, <<186, 186>>, <<192, 214>>,
     <<216, 246>>, <<248, 442>>, <<444, 447>>, <<452, 659>>, <<661, 696>>, <<704, 705>>,
     <<736, 740>>, <<837, 837>>, <<880, 883>>, <<886, 887>>, <<890, 893>>, <<895, 895>>,
     <<902, 902>>, <<904, 906>>, <<908, 908>>, <<910, 929>>, <<931, 1013>>, <<1015, 1153>>,
     <<1162, 1327>>, <<1329, 1366>>, <<1376, 1416>>, <<4256, 4293>>, <<4295, 4295>>,
     <<4301, 4301>>, <<4304, 4346>>, <<4349, 4351>>, <<5024, 5109>>, <<5112, 5117>>,
     <<7296, 7304>>, <<7312, 7354>>, <<7357, 7359>>, <<7424, 7615>>, <<7680, 7957>>,
     <<7960, 7965>>, <<7968, 8005>>, <<8008, 8013>>, <<8016, 8023>>, <<8025, 8025>>,
     <<8027, 8027>>, <<8029, 8029>>, <<8031, 8061>>, <<8064, 8116>>, <<8118, 8124>>,
     <<8126, 8126>>, <<8130, 8132>>, <<8134, 8140>>, <<8144, 8147>>, <<8150, 8155>>,
     <<8160, 8172>>, <<8178, 8180>>, <<8182, 8188>>, <<8305, 8305>>, <<8319, 8319>>,
     <<8336, 8348>>, <<8450, 8450>>, <<8455, 8455>>, <<8458, 8467>>, <<8469, 8469>>,
     <<8473, 8477>>, <<8484, 8484>>, <<8486, 8486>>, <<8488, 8488>>, <<8490, 8493>>,
     <<8495, 8500>>, <<8505, 8505>>, <<8508, 8511>>, <<8517, 8521>>, <<8526, 8526>>,
     <<8544, 8575>>, <<8579, 8580>>, <<9398, 9449>>, <<11264, 11492>>, <<11499, 11502>>,
     <<11506, 11507>>, <<11520, 11557>>, <<11559, 11559>>, <<11565, 11565>>, <<42560, 42605>>,
     <<42624, 42653>>, <<42786, 42887>>, <<42891, 42894>>, <<42896, 42954>>, <<42960, 42961>>,
     <<42963, 42963>>, <<42965, 42969>>, <<42997, 42998>>, <<43000, 43002>>, <<43824, 43866>>,
     <<43868, 43880>>, <<43888, 43967>>, <<64256, 64262>>, <<64275, 64279>>, <<65313, 65338>>,
     <<65345, 65370>>, <<66560, 66639>>, <<66736, 66771>>, <<66776, 66811>>, <<66928, 66938>>,
     <<66940, 66954>>, <<66956, 66962>>, <<66964, 66965>>, <<66967, 66977>>, <<66979, 66993>>,
     <<66995, 67001>>, <<67003, 67004>>, <<67456, 67456>>, <<67459, 67461>>, <<67463, 67504>>,
     <<67506, 67514>>, <<68736, 68786>>, <<68800, 68850>>, <<71840, 71903>>, <<93760, 93823>>,
     <<119808, 119892>>, <<119894, 119964>>, <<119966, 119967>>, <<119970, 119970>>,
     <<119973, 119974>>, <<119977, 119980>>, <<119982, 119993>>, <<119995, 119995>>,
     <<119997, 120003>>, <<120005, 120069>>, <<120071, 120074>>, <<120077, 120084>>,
     <<120086, 120092>>, <<120094, 120121>>, <<120123, 120126>>, <<120128, 120132>>,
     <<120134, 120134>>, <<120138, 120144>>, <<120146, 120485>>, <<120488, 120512>>,
     <<120514, 120538>>, <<120540, 120570>>, <<120572, 120596>>, <<120598, 120628>>,
     <<120630, 120654>>, <<120656, 120686>>, <<120688, 120712>>, <<120714, 120744>>,
     <<120746, 120770>>, <<120772, 120779>>, <<122624, 122633>>, <<122635, 122654>>,
     <<125184, 125251>>, <<127280, 127305>>, <<127312, 127337>>, <<127344, 127369>>}

\* The characters with the property Case_Ignorable.
CaseIgnorableRanges ==
    {<<39, 39>>, <<46, 46>>, <<58, 58>>, <<94, 94>>, <<96, 96>>, <<168, 168>>, <<173, 173>>,
     <<175, 175>>, <<180, 180>>, <<183, 184>>, <<688, 879>>, <<884, 885>>, <<890, 890>>,
     <<900, 901>>, <<903, 903>>, <<1155, 1161>>, <<1369, 1369>>, <<1375, 1375>>, <<1425, 1469>>,
     <<1471, 1471>>, <<1473, 1474>>, <<1476, 1477>>, <<1479, 1479>>, <<1524, 1524>>,
     <<1536, 1541>>, <<1552, 1562>>, <<1564, 1564>>, <<1600, 1600>>, <<1611, 1631>>,
     <<1648, 1648>>, <<1750, 1757>>, <<1759, 1768>>, <<1770, 1773>>, <<1807, 1807>>,
     <<1809, 1809>>, <<1840, 1866>>, <<1958, 1968>>, <<2027, 2037>>, <<2042, 2042>>,
     <<2045, 2045>>, <<2070, 2093>>, <<2137, 2139>>, <<2184, 2184>>, <<2192, 2193>>,
     <<2200, 2207>>, <<2249, 2306>>, <<2362, 2362>>, <<2364, 2364>>, <<2369, 2376>>,
     <<2381, 2381>>, <<2385, 2391>>, <<2402, 2403>>, <<2417, 2417>>, <<2433, 2433>>,
     <<2492, 2492>>, <<2497, 2500>>, <<2509, 2509>>, <<2530, 2531>>, <<2558, 2558>>,
     <<2561, 2562>>, <<2620, 2620>>, <<2625, 2626>>, <<2631, 2632>>, <<2635, 2637>>,
     <<2641, 2641>>, <<2672, 2673>>, <<2677, 2677>>, <<2689, 2690>>, <<2748, 2748>>,
     <<2753, 2757>>, <<2759, 2760>>, <<2765, 2765>>, <<2786, 2787>>, <<2810, 2815>>,
     <<2817, 2817>>, <<2876, 2876>>, <<2879, 2879>>, <<2881, 2884>>, <<2893, 2893>>,
     <<2901, 2902>>, <<2914, 2915>>, <<2946, 2946>>, <<3008, 3008>>, <<3021, 3021>>,
     <<3072, 3072>>, <<3076, 3076>>, <<3132, 3132>>, <<3134, 3136>>, <<3142, 3144>>,
     <<3146, 3149>>, <<3157, 3158>>, <<3170, 3171>>, <<3201, 3201>>, <<3260, 3260>>,
     <<3263, 3263>>, <<3270, 3270>>, <<3276, 3277>>, <<3298, 3299>>, <<3328, 3329>>,
     <<3387, 3388>>, <<3393, 3396>>, <<3405, 3405>>, <<3426, 3427>>, <<3457, 3457>>,
     <<3530, 3530>>, <<3538, 3540>>, <<3542, 3542>>, <<3633, 3633>>, <<3636, 3642>>,
     <<3654, 3662>>, <<3761, 3761>>, <<3764, 3772>>, <<3782, 3782>>, <<3784, 3789>>,
     <<3864, 3865>>, <<3893, 3893>>, <<3895, 3895>>, <<3897, 3897>>, <<3953, 3966>>,
     <<3968, 3972>>, <<3974, 3975>>, <<3981, 3991>>, <<3993, 4028>>, <<4038, 4038>>,
     <<4141, 4144>>, <<4146, 4151>>, <<4153, 4154>>, <<4157, 4158>>, <<4184, 4185>>,
     <<4190, 4192>>, <<4209, 4212>>, <<4226, 4226>>, <<4229, 4230>>, <<4237, 4237>>,
     <<4253, 4253>>, <<4348, 4348>>, <<4957, 4959>>, <<5906, 5908>>, <<5938, 5939>>,
     <<5970, 5971>>, <<6002, 6003>>, <<6068, 6069>>, <<6071, 6077>>, <<6086, 6086>>,
     <<6089, 6099>>, <<6103, 6103>>, <<6109, 6109>>, <<6155, 6159>>, <<6211, 6211>>,
     <<6277, 6278>>, <<6313, 6313>>, <<6432, 6434>>, <<6439, 6440>>, <<6450, 6450>>,
     <<6457, 6459>>, <<6679, 6680>>, <<6683, 6683>>, <<6742, 6742>>, <<6744, 6750>>,
     <<6752, 6752>>, <<6754, 6754>>, <<6757, 6764>>, <<6771, 6780>>, <<6783, 6783>>,
     <<6823, 6823>>, <<6832, 6862>>, <<6912, 6915>>, <<6964, 6964>>, <<6966, 6970>>,
     <<6972, 6972>>, <<6978, 6978>>, <<7019, 7027>>, <<7040, 7041>>, <<7074, 7077>>,
     <<7080, 7081>>, <<7083, 7085>>, <<7142, 7142>>, <<7144, 7145>>, <<7149, 7149>>,
     <<7151, 7153>>, <<7212, 7219>>, <<7222, 7223>>, <<7288, 7293>>, <<7376, 7378>>,
     <<7380, 7392>>, <<7394, 7400>>, <<7405, 7405>>, <<7412, 7412>>, <<7416, 7417>>,
     <<7468, 7530>>, <<7544, 7544>>, <<7579, 7679>>, <<8125, 8125>>, <<8127, 8129>>,
     <<8141, 8143>>, <<8157, 8159>>, <<8173, 8175>>, <<8189, 8190>>, <<8203, 8207>>,
     <<8216, 8217>>, <<8228, 8228>>, <<8231, 8231>>, <<8234, 8238>>, <<8288, 8292>>,
     <<8294, 8303>>, <<8305, 8305>>, <<8319, 8319>>, <<8336, 8348>>, <<8400, 8432>>,
     <<11388, 11389>>, <<11503, 11505>>, <<11631, 11631>>, <<11647, 11647>>, <<11744, 11775>>,
     <<11823, 11823>>, <<12293, 12293>>, <<12330, 12333>>, <<12337, 12341>>, <<12347, 12347>>,
     <<12441, 12446>>, <<12540, 12542>>, <<40981, 40981>>, <<42232, 42237>>, <<42508, 42508>>,
     <<42607, 42610>>, <<42612, 42621>>, <<42623, 42623>>, <<42652, 42655>>, <<42736, 42737>>,
     <<42752, 42785>>, <<42864, 42864>>, <<42888, 42890>>, <<42994, 42996>>, <<43000, 43001>>,
     <<43010, 43010>>, <<43014, 43014>>, <<43019, 43019>>, <<43045, 43046>>, <<43052, 43052>>,
     <<43204, 43205>>, <<43232, 43249>>, <<43263, 43263>>, <<43302, 43309>>, <<43335, 43345>>,
     <<43392, 43394>>, <<43443, 43443>>, <<43446, 43449>>, <<43452, 43453>>, <<43471, 43471>>,
     <<43493, 43494>>, <<43561, 43566>>, <<43569, 43570>>, <<43573, 43574>>, <<43587, 43587>>,
     <<43596, 43596>>, <<43632, 43632>>, <<43644, 43644>>, <<43696, 43696>>, <<43698, 43700>>,
     <<43703, 43704>>, <<43710, 43711>>, <<43713, 43713>>, <<43741, 43741>>, <<43756, 43757>>,
     <<43763, 43764>>, <<43766, 43766>>, <<43867, 43871>>, <<43881, 43883>>, <<44005, 44005>>,
     <<44008, 44008>>, <<44013, 44013>>, <<64286, 64286>>, <<64434, 64450>>, <<65024, 65039>>,
     <<65043, 65043>>, <<65056, 65071>>, <<65106, 65106>>, <<65109, 65109>>, <<65279, 65279>>,
     <<65287, 65287>>, <<65294, 65294>>, <<65306, 65306>>, <<65342, 65342>>, <<65344, 65344>>,
     <<65392, 65392>>, <<65438, 65439>>, <<65507, 65507>>, <<65529, 65531>>, <<66045, 66045>>,
     <<66272, 66272>>, <<66422, 66426>>, <<67456, 67461>>, <<67463, 67504>>, <<67506, 67514>>,
     <<68097, 68099>>, <<68101, 68102>>, <<68108, 68111>>, <<68152, 68154>>, <<68159, 68159>>,
     <<68325, 68326>>, <<68900, 68903>>, <<69291, 69292>>, <<69446, 69456>>, <<69506, 69509>>,
     <<69633, 69633>>, <<69688, 69702>>, <<69744, 69744>>, <<69747, 69748>>, <<69759, 69761>>,
     <<69811, 69814>>, <<69817, 69818>>, <<69821, 69821>>, <<69826, 69826>>, <<69837, 69837>>,
     <<69888, 69890>>, <<69927, 69931>>, <<69933, 69940>>, <<70003, 70003>>, <<70016, 70017>>,
     <<70070, 70078>>, <<70089, 70092>>, <<70095, 70095>>, <<70191, 70193>>, <<70196, 70196>>,
     <<70198, 70199>>, <<70206, 70206>>, <<70367, 70367>>, <<70371, 70378>>, <<70400, 70401>>,
     <<70459, 70460>>, <<70464, 70464>>, <<70502, 70508>>, <<70512, 70516>>, <<70712, 70719>>,
     <<70722, 70724>>, <<70726, 70726>>, <<70750, 70750>>, <<70835, 70840>>, <<70842, 70842>>,
     <<70847, 70848>>, <<70850, 70851>>, <<71090, 71093>>, <<71100, 71101>>, <<71103, 71104>>,
     <<71132, 71133>>, <<71219, 71226>>, <<71229, 71229>>, <<71231, 71232>>, <<71339, 71339>>,
     <<71341, 71341>>, <<71344, 71349>>, <<71351, 71351>>, <<71453, 71455>>, <<71458, 71461>>,
     <<71463, 71467>>, <<71727, 71735>>, <<71737, 71738>>, <<71995, 71996>>, <<71998, 71998>>,
     <<72003, 72003>>, <<72148, 72151>>, <<72154, 72155>>, <<72160, 72160>>, <<72193, 72202>>,
     <<72243, 72248>>, <<72251, 72254>>, <<72263, 72263>>, <<72273, 72278>>, <<72281, 72283>>,
     <<72330, 72342>>, <<72344, 72345>>, <<72752, 72758>>, <<72760, 72765>>, <<72767, 72767>>,
     <<72850, 72871>>, <<72874, 72880>>, <<72882, 72883>>, <<72885, 72886>>, <<73009, 73014>>,
     <<73018, 73018>>, <<73020, 73021>>, <<73023, 73029>>, <<73031, 73031>>, <<73104, 73105>>,
     <<73109, 73109>>, <<73111, 73111>>, <<73459, 73460>>, <<78896, 78904>>, <<92912, 92916>>,
     <<92976, 92982>>, <<92992, 92995>>, <<94031, 94031>>, <<94095, 94111>>, <<94176, 94177>>,
     <<94179, 94180>>, <<110576, 110579>>, <<110581, 110587>>, <<110589, 110590>>,
     <<113821, 113822>>, <<113824, 113827>>, <<118528, 118573>>, <<118576, 118598>>,
     <<119143, 119145>>, <<119155, 119170>>, <<119173, 119179>>, <<119210, 119213>>,
     <<119362, 119364>>, <<121344, 121398>>, <<121403, 121452>>, <<121461, 121461>>,
     <<121476, 121476>>, <<121499, 121503>>, <<121505, 121519>>, <<122880, 122886>>,
     <<122888, 122904>>, <<122907, 122913>>, <<122915, 122916>>, <<122918, 122922>>,
     <<123184, 123197>>, <<123566, 123566>>, <<123628, 123631>>, <<125136, 125142>>,
     <<125252, 125259>>, <<127995, 127999>>, <<917505, 917505>>, <<917536, 917631>>,
     <<917760, 917999>>}

\* The lower case of the characters that have one: <<first, last, step,
\* offset>> says that first, first + step, ... up to last each go to the
\* character `offset` further on.
LowerRuns ==
    {<<65, 90, 1, 32>>, <<192, 214, 1, 32>>, <<216, 222, 1, 32>>, <<256, 302, 2, 1>>,
     <<306, 310, 2, 1>>, <<313, 327, 2, 1>>, <<330, 374, 2, 1>>, <<376, 376, 1, -121>>,
     <<377, 381, 2, 1>>, <<385, 385, 1, 210>>, <<386, 388, 2, 1>>, <<390, 390, 1, 206>>,
     <<391, 391, 1, 1>>, <<393, 394, 1, 205>>, <<395, 395, 1, 1>>, <<398, 398, 1, 79>>,
     <<399, 399, 1, 202>>, <<400, 400, 1, 203>>, <<401, 401, 1, 1>>, <<403, 403, 1, 205>>,
     <<404, 404, 1, 207>>, <<406, 406, 1, 211>>, <<407, 407, 1, 209>>, <<408, 408, 1, 1>>,
     <<412, 412, 1, 211>>, <<413, 413, 1, 213>>, <<415, 415, 1, 214>>, <<416, 420, 2, 1>>,
     <<422, 422, 1, 218>>, <<423, 423, 1, 1>>, <<425, 425, 1, 218>>, <<428, 428, 1, 1>>,
     <<430, 430, 1, 218>>, <<431, 431, 1, 1>>, <<433, 434, 1, 217>>, <<435, 437, 2, 1>>,
     <<439, 439, 1, 219>>, <<440, 440, 1, 1>>, <<444, 444, 1, 1>>, <<452, 452, 1, 2>>,
     <<453, 453, 1, 1>>, <<455, 455, 1, 2>>, <<456, 456, 1, 1>>, <<458, 458, 1, 2>>,
     <<459, 475, 2, 1>>, <<478, 494, 2, 1>>, <<497, 497, 1, 2>>, <<498, 500, 2, 1>>,
     <<502, 502, 1, -97>>, <<503, 503, 1, -56>>, <<504, 542, 2, 1>>, <<544, 544, 1, -130>>,
     <<546, 562, 2, 1>>, <<570, 570, 1, 10795>>, <<571, 571, 1, 1>>, <<573, 573, 1, -163>>,
     <<574, 574, 1, 10792>>, <<577, 577, 1, 1>>, <<579, 579, 1, -195>>, <<580, 580, 1, 69>>,
     <<581, 581, 1, 71>>, <<582, 590, 2, 1>>, <<880, 882, 2, 1>>, <<886, 886, 1, 1>>,
     <<895, 895, 1, 116>>, <<902, 902, 1, 38>>, <<904, 906, 1, 37>>, <<908, 908, 1, 64>>,
     <<910, 911, 1, 63>>, <<913, 929, 1, 32>>, <<931, 939, 1, 32>>, <<975, 975, 1, 8>>,
     <<984, 1006, 2, 1>>, <<1012, 1012, 1, -60>>, <<1015, 1015, 1, 1>>, <<1017, 1017, 1, -7>>,
     <<1018, 1018, 1, 1>>, <<1021, 1023, 1, -130>>, <<1024, 1039, 1, 80>>,
     <<1040, 1071, 1, 32>>, <<1120, 1152, 2, 1>>, <<1162, 1214, 2, 1>>, <<1216, 1216, 1, 15>>,
     <<1217, 1229, 2, 1>>, <<1232, 1326, 2, 1>>, <<1329, 1366, 1, 48>>, <<4256, 4293, 1, 7264>>,
     <<4295, 4295, 1, 7264>>, <<4301, 4301, 1, 7264>>, <<5024, 5103, 1, 38864>>,
     <<5104, 5109, 1, 8>>, <<7312, 7354, 1, -3008>>, <<7357, 7359, 1, -3008>>,
     <<7680, 7828, 2, 1>>, <<7838, 7838, 1, -7615>>, <<7840, 7934, 2, 1>>,
     <<7944, 7951, 1, -8>>, <<7960, 7965, 1, -8>>, <<7976, 7983, 1, -8>>, <<7992, 7999, 1, -8>>,
     <<8008, 8013, 1, -8>>, <<8025, 8031, 2, -8>>, <<8040, 8047, 1, -8>>, <<8072, 8079, 1, -8>>,
     <<8088, 8095, 1, -8>>, <<8104, 8111, 1, -8>>, <<8120, 8121, 1, -8>>,
     <<8122, 8123, 1, -74>>, <<8124, 8124, 1, -9>>, <<8136, 8139, 1, -86>>,
     <<8140, 8140, 1, -9>>, <<8152, 8153, 1, -8>>, <<8154, 8155, 1, -100>>,
     <<8168, 8169, 1, -8>>, <<8170, 8171, 1, -112>>, <<8172, 8172, 1, -7>>,
     <<8184, 8185, 1, -128>>, <<8186, 8187, 1, -126>>, <<8188, 8188, 1, -9>>,
     <<8486, 8486, 1, -7517>>, <<8490, 8490, 1, -8383>>, <<8491, 8491, 1, -8262>>,
     <<8498, 8498, 1, 28>>, <<8544, 8559, 1, 16>>, <<8579, 8579, 1, 1>>, <<9398, 9423, 1, 26>>,
     <<11264, 11311, 1, 48>>, <<11360, 11360, 1, 1>>, <<11362, 11362, 1, -10743>>,
     <<11363, 11363, 1, -3814>>, <<11364, 11364, 1, -10727>>, <<11367, 11371, 2, 1>>,
     <<11373, 11373, 1, -10780>>, <<11374, 11374, 1, -10749>>, <<11375, 11375, 1, -10783>>,
     <<11376, 11376, 1, -10782>>, <<11378, 11378, 1, 1>>, <<11381, 11381, 1, 1>>,
     <<11390, 11391, 1, -10815>>, <<11392, 11490, 2, 1>>, <<11499, 11501, 2, 1>>,
     <<11506, 11506, 1, 1>>, <<42560, 42604, 2, 1>>, <<42624, 42650, 2, 1>>,
     <<42786, 42798, 2, 1>>, <<42802, 42862, 2, 1>>, <<42873, 42875, 2, 1>>,
     <<42877, 42877, 1, -35332>>, <<42878, 42886, 2, 1>>, <<42891, 42891, 1, 1>>,
     <<42893, 42893, 1, -42280>>, <<42896, 42898, 2, 1>>, <<42902, 42920, 2, 1>>,
     <<42922, 42922, 1, -42308>>, <<42923, 42923, 1, -42319>>, <<42924, 42924, 1, -42315>>,
     <<42925, 42925, 1, -42305>>, <<42926, 42926, 1, -42308>>, <<42928, 42928, 1, -42258>>,
     <<42929, 42929, 1, -42282>>, <<42930, 42930, 1, -42261>>, <<42931, 42931, 1, 928>>,
     <<42932, 42946, 2, 1>>, <<42948, 42948, 1, -48>>, <<42949, 42949, 1, -42307>>,
     <<42950, 42950, 1, -35384>>, <<42951, 42953, 2, 1>>, <<42960, 42960, 1, 1>>,
     <<42966, 42968, 2, 1>>, <<42997, 42997, 1, 1>>, <<65313, 65338, 1, 32>>,
     <<66560, 66599, 1, 40>>, <<66736, 66771, 1, 40>>, <<66928, 66938, 1, 39>>,
     <<66940, 66954, 1, 39>>, <<66956, 66962, 1, 39>>, <<66964, 66965, 1, 39>>,
     <<68736, 68786, 1, 64>>, <<71840, 71871, 1, 32>>, <<93760, 93791, 1, 32>>,
     <<125184, 125217, 1, 34>>}

\* The one character whose lower case is two characters.
LowerSpecial ==
    {<<304, <<105, 775>>>>}

\* The title case, in the same way.
TitleRuns ==
    {<<97, 122, 1, -32>>, <<181, 181, 1, 743>>, <<224, 246, 1, -32>>, <<248, 254, 1, -32>>,
     <<255, 255, 1, 121>>, <<257, 303, 2, -1>>, <<305, 305, 1, -232>>, <<307, 311, 2, -1>>,
     <<314, 328, 2, -1>>, <<331, 375, 2, -1>>, <<378, 382, 2, -1>>, <<383, 383, 1, -300>>,
     <<384, 384, 1, 195>>, <<387, 389, 2, -1>>, <<392, 392, 1, -1>>, <<396, 396, 1, -1>>,
     <<402, 402, 1, -1>>, <<405, 405, 1, 97>>, <<409, 409, 1, -1>>, <<410, 410, 1, 163>>,
     <<414, 414, 1, 130>>, <<417, 421, 2, -1>>, <<424, 424, 1, -1>>, <<429, 429, 1, -1>>,
     <<432, 432, 1, -1>>, <<436, 438, 2, -1>>, <<441, 441, 1, -1>>, <<445, 445, 1, -1>>,
     <<447, 447, 1, 56>>, <<452, 452, 1, 1>>, <<454, 454, 1, -1>>, <<455, 455, 1, 1>>,
     <<457, 457, 1, -1>>, <<458, 458, 1, 1>>, <<460, 476, 2, -1>>, <<477, 477, 1, -79>>,
     <<479, 495, 2, -1>>, <<497, 497, 1, 1>>, <<499, 501, 2, -1>>, <<505, 543, 2, -1>>,
     <<547, 563, 2, -1>>, <<572, 572, 1, -1>>, <<575, 576, 1, 10815>>, <<578, 578, 1, -1>>,
     <<583, 591, 2, -1>>, <<592, 592, 1, 10783>>, <<593, 593, 1, 10780>>,
     <<594, 594, 1, 10782>>, <<595, 595, 1, -210>>, <<596, 596, 1, -206>>,
     <<598, 599, 1, -205>>, <<601, 601, 1, -202>>, <<603, 603, 1, -203>>,
     <<604, 604, 1, 42319>>, <<608, 608, 1, -205>>, <<609, 609, 1, 42315>>,
     <<611, 611, 1, -207>>, <<613, 613, 1, 42280>>, <<614, 614, 1, 42308>>,
     <<616, 616, 1, -209>>, <<617, 617, 1, -211>>, <<618, 618, 1, 42308>>,
     <<619, 619, 1, 10743>>, <<620, 620, 1, 42305>>, <<623, 623, 1, -211>>,
     <<625, 625, 1, 10749>>, <<626, 626, 1, -213>>, <<629, 629, 1, -214>>,
     <<637, 637, 1, 10727>>, <<640, 640, 1, -218>>, <<642, 642, 1, 42307>>,
     <<643, 643, 1, -218>>, <<647, 647, 1, 42282>>, <<648, 648, 1, -218>>, <<649, 649, 1, -69>>,
     <<650, 651, 1, -217>>, <<652, 652, 1, -71>>, <<658, 658, 1, -219>>, <<669, 669, 1, 42261>>,
     <<670, 670, 1, 42258>>, <<837, 837, 1, 84>>, <<881, 883, 2, -1>>, <<887, 887, 1, -1>>,
     <<891, 893, 1, 130>>, <<940, 940, 1, -38>>, <<941, 943, 1, -37>>, <<945, 961, 1, -32>>,
     <<962, 962, 1, -31>>, <<963, 971, 1, -32>>, <<972, 972, 1, -64>>, <<973, 974, 1, -63>>,
     <<976, 976, 1, -62>>, <<977, 977, 1, -57>>, <<981, 981, 1, -47>>, <<982, 982, 1, -54>>,
     <<983, 983, 1, -8>>, <<985, 1007, 2, -1>>, <<1008, 1008, 1, -86>>, <<1009, 1009, 1, -80>>,
     <<1010, 1010, 1, 7>>, <<1011, 1011, 1, -116>>, <<1013, 1013, 1, -96>>,
     <<1016, 1016, 1, -1>>, <<1019, 1019, 1, -1>>, <<1072, 1103, 1, -32>>,
     <<1104, 1119, 1, -80>>, <<1121, 1153, 2, -1>>, <<1163, 1215, 2, -1>>,
     <<1218, 1230, 2, -1>>, <<1231, 1231, 1, -15>>, <<1233, 1327, 2, -1>>,
     <<1377, 1414, 1, -48>>, <<5112, 5117, 1, -8>>, <<7296, 7296, 1, -6254>>,
     <<7297, 7297, 1, -6253>>, <<7298, 7298, 1, -6244>>, <<7299, 7300, 1, -6242>>,
     <<7301, 7301, 1, -6243>>, <<7302, 7302, 1, -6236>>, <<7303, 7303, 1, -6181>>,
     <<7304, 7304, 1, 35266>>, <<7545, 7545, 1, 35332>>, <<7549, 7549, 1, 3814>>,
     <<7566, 7566, 1, 35384>>, <<7681, 7829, 2, -1>>, <<7835, 7835, 1, -59>>,
     <<7841, 7935, 2, -1>>, <<7936, 7943, 1, 8>>, <<7952, 7957, 1, 8>>, <<7968, 7975, 1, 8>>,
     <<7984, 7991, 1, 8>>, <<8000, 8005, 1, 8>>, <<8017, 8023, 2, 8>>, <<8032, 8039, 1, 8>>,
     <<8048, 8049, 1, 74>>, <<8050, 8053, 1, 86>>, <<8054, 8055, 1, 100>>,
     <<8056, 8057, 1, 128>>, <<8058, 8059, 1, 112>>, <<8060, 8061, 1, 126>>,
     <<8064, 8071, 1, 8>>, <<8080, 8087, 1, 8>>, <<8096, 8103, 1, 8>>, <<8112, 8113, 1, 8>>,
     <<8115, 8115, 1, 9>>, <<8126, 8126, 1, -7205>>, <<8131, 8131, 1, 9>>, <<8144, 8145, 1, 8>>,
     <<8160, 8161, 1, 8>>, <<8165, 8165, 1, 7>>, <<8179, 8179, 1, 9>>, <<8526, 8526, 1, -28>>,
     <<8560, 8575, 1, -16>>, <<8580, 8580, 1, -1>>, <<9424, 9449, 1, -26>>,
     <<11312, 11359, 1, -48>>, <<11361, 11361, 1, -1>>, <<11365, 11365, 1, -10795>>,
     <<11366, 11366, 1, -10792>>, <<11368, 11372, 2, -1>>, <<11379, 11379, 1, -1>>,
     <<11382, 11382, 1, -1>>, <<11393, 11491, 2, -1>>, <<11500, 11502, 2, -1>>,
     <<11507, 11507, 1, -1>>, <<11520, 11557, 1, -7264>>, <<11559, 11559, 1, -7264>>,
     <<11565, 11565, 1, -7264>>, <<42561, 42605, 2, -1>>, <<42625, 42651, 2, -1>>,
     <<42787, 42799, 2, -1>>, <<42803, 42863, 2, -1>>, <<42874, 42876, 2, -1>>,
     <<42879, 42887, 2, -1>>, <<42892, 42892, 1, -1>>, <<42897, 42899, 2, -1>>,
     <<42900, 42900, 1, 48>>, <<42903, 42921, 2, -1>>, <<42933, 42947, 2, -1>>,
     <<42952, 42954, 2, -1>>, <<42961, 42961, 1, -1>>, <<42967, 42969, 2, -1>>,
     <<42998, 42998, 1, -1>>, <<43859, 43859, 1, -928>>, <<43888, 43967, 1, -38864>>,
     <<65345, 65370, 1, -32>>, <<66600, 66639, 1, -40>>, <<66776, 66811, 1, -40>>,
     <<66967, 66977, 1, -39>>, <<66979, 66993, 1, -39>>, <<66995, 67001, 1, -39>>,
     <<67003, 67004, 1, -39>>, <<68800, 68850, 1, -64>>, <<71872, 71903, 1, -32>>,
     <<93792, 93823, 1, -32>>, <<125218, 125251, 1, -34>>}

\* The characters whose title case is more than one character.
TitleSpecial ==
    {<<223, <<83, 115>>>>, <<329, <<700, 78>>>>, <<496, <<74, 780>>>>,
     <<912, <<921, 776, 769>>>>, <<944, <<933, 776, 769>>>>, <<1415, <<1333, 1410>>>>,
     <<7830, <<72, 817>>>>, <<7831, <<84, 776>>>>, <<7832, <<87, 778>>>>, <<7833, <<89, 778>>>>,
     <<7834, <<65, 702>>>>, <<8016, <<933, 787>>>>, <<8018, <<933, 787, 768>>>>,
     <<8020, <<933, 787, 769>>>>, <<8022, <<933, 787, 834>>>>, <<8114, <<8122, 837>>>>,
     <<8116, <<902, 837>>>>, <<8118, <<913, 834>>>>, <<8119, <<913, 834, 837>>>>,
     <<8130, <<8138, 837>>>>, <<8132, <<905, 837>>>>, <<8134, <<919, 834>>>>,
     <<8135, <<919, 834, 837>>>>, <<8146, <<921, 776, 768>>>>, <<8147, <<921, 776, 769>>>>,
     <<8150, <<921, 834>>>>, <<8151, <<921, 776, 834>>>>, <<8162, <<933, 776, 768>>>>,
     <<8163, <<933, 776, 769>>>>, <<8164, <<929, 787>>>>, <<8166, <<933, 834>>>>,
     <<8167, <<933, 776, 834>>>>, <<8178, <<8186, 837>>>>, <<8180, <<911, 837>>>>,
     <<8182, <<937, 834>>>>, <<8183, <<937, 834, 837>>>>, <<64256, <<70, 102>>>>,
     <<64257, <<70, 105>>>>, <<64258, <<70, 108>>>>, <<64259, <<70, 102, 105>>>>,
     <<64260, <<70, 102, 108>>>>, <<64261, <<83, 116>>>>, <<64262, <<83, 116>>>>,
     <<64275, <<1348, 1398>>>>, <<64276, <<1348, 1381>>>>, <<64277, <<1348, 1387>>>>,
     <<64278, <<1358, 1398>>>>, <<64279, <<1348, 1389>>>>}

\* The code points whose unit is as long as the unit c, as <<first, last>>:
\* a printable ASCII character is one character long, "U+" with four, five
\* or six hexadecimal digits follows.
CodesLike(c) ==
    IF Len(c) = 1 THEN <<0, 127>>
    ELSE IF Len(c) = 6 THEN <<0, 65535>>
    ELSE IF Len(c) = 7 THEN <<65536, 1048575>>
    ELSE <<1048576, 1114111>>

\* Whether the character c lies in one of the ranges.
InRanges(c, ranges) ==
    \E range \in ranges :
        LET first == IF range[1] > CodesLike(c)[1] THEN range[1] ELSE CodesLike(c)[1]
            last == IF range[2] < CodesLike(c)[2] THEN range[2] ELSE CodesLike(c)[2]
        IN  \E n \in first..last : chr(n) = c

IsWord(c) == InRanges(c, WordRanges)
IsCased(c) == InRanges(c, CasedRanges)
IsCaseIgnorable(c) == InRanges(c, CaseIgnorableRanges)

\* The pairs <<character, its mapping>> of a table.
CasePairs(runs, special) ==
    UNION {{<<chr(n), <<chr(n + run[4])>>>> :
               n \in {m \in run[1]..run[2] : (m - run[1]) % run[3] = 0}} : run \in runs}
    \cup {<<chr(e[1]), [i \in 1..Len(e[2]) |-> chr(e[2][i])]>> : e \in special}

LowerPairs == CasePairs(LowerRuns, LowerSpecial)
TitlePairs == CasePairs(TitleRuns, TitleSpecial)
LowerDomain == {pair[1] : pair \in LowerPairs}
TitleDomain == {pair[1] : pair \in TitlePairs}

\* _PyUnicode_ToLowerFull and _PyUnicode_ToTitleFull: the characters a
\* character goes to.
ToLowerFull(c) ==
    IF c \in LowerDomain THEN (CHOOSE pair \in LowerPairs : pair[1] = c)[2] ELSE <<c>>
ToTitleFull(c) ==
    IF c \in TitleDomain THEN (CHOOSE pair \in TitlePairs : pair[1] = c)[2] ELSE <<c>>

CapitalSigma == chr(931)
FinalSigma == chr(962)
SmallSigma == chr(963)

\* final_sigma: a capital sigma goes to the final sigma when a cased
\* character stands before it and none after it, the characters that are
\* Case_Ignorable being passed over.
final_sigma(s, i) ==
    LET before == {j \in 1..(i - 1) : ~IsCaseIgnorable(s[j])}
        after == {j \in (i + 1)..Len(s) : ~IsCaseIgnorable(s[j])}
        last == CHOOSE j \in before : \A k \in before : k <= j
        next == CHOOSE j \in after : \A k \in after : j <= k
    IN  IF before # {} /\ IsCased(s[last]) /\ (after = {} \/ ~IsCased(s[next]))
        THEN FinalSigma ELSE SmallSigma

\* lower_ucs4: the lower case of the character at position i.
lower_ucs4(s, i) ==
    IF s[i] = CapitalSigma THEN <<final_sigma(s, i)>> ELSE ToLowerFull(s[i])

\* The sequences of a list one after the other.
Concat(parts) ==
    LET upto[k \in 0..Len(parts)] == IF k = 0 THEN <<>> ELSE upto[k - 1] \o parts[k]
    IN  upto[Len(parts)]

\* str.lower()
str_lower(s) == Concat([i \in 1..Len(s) |-> lower_ucs4(s, i)])

\* str.title(): a character after a cased character goes to lower case, any
\* other to title case.
str_title(s) ==
    Concat([i \in 1..Len(s) |->
               IF i > 1 /\ IsCased(s[i - 1]) THEN lower_ucs4(s, i) ELSE ToTitleFull(s[i])])

\* len(text.split()): the runs of characters that are no white space.
WordCount(s) ==
    Cardinality({i \in 1..Len(s) :
        s[i] \notin Whitespace /\ (i = 1 \/ s[i - 1] \in Whitespace)})

\* re.sub(r'[^\\w\\s]', '', phrase) and re.sub(r'\\s+', '', ...) in one pass.
Clean(s) == SelectSeq(s, IsWord)

\* What the NLP model found in a text: the entities with their labels and the
\* noun chunks, in the order of the text.
Doc(ents, noun_chunks) == [ents |-> ents, noun_chunks |-> noun_chunks]
Ent(text, label_) == [text |-> text, label_ |-> label_]
HashtagLabels == {"ORG", "PERSON", "GPE", "EVENT"}

\* [ent.text.lower() for ent in doc.ents if ent.label_ in [...]]
Entities(ents) ==
    LET kept == SelectSeq(ents, LAMBDA ent : ent.label_ \in HashtagLabels)
    IN  [i \in 1..Len(kept) |-> str_lower(kept[i].text)]

\* [chunk.text.lower() for chunk in doc.noun_chunks if len(chunk.text.split()) <= 2]
NounChunks(chunks) ==
    LET kept == SelectSeq(chunks, LAMBDA chunk : WordCount(chunk) <= 2)
    IN  [i \in 1..Len(kept) |-> str_lower(kept[i])]

\* The elements of a list without those that occurred before, in their order.
Distinct(list) ==
    LET first == SelectSeq([i \in 1..Len(list) |-> i],
                           LAMBDA i : \A j \in 1..(i - 1) : list[j] # list[i])
    IN  [k \in 1..Len(first) |-> list[first[k]]]

\* The keys of Counter(phrases): the phrases in the order of their first
\* occurrence.
Keys(phrases) == Distinct(phrases)

Count(phrases, p) == Cardinality({i \in 1..Len(phrases) : phrases[i] = p})

\* sorted(..., key=lambda x: (-x[1], len(x[0]))): by count, the larger first,
\* then by length, the shorter first; equal keys keep their order.
SortedPhrases(phrases) ==
    LET keys == Keys(phrases)
        n == Len(keys)
        Less(i, j) ==
            \/ Count(phrases, keys[i]) > Count(phrases, keys[j])
            \/ /\ Count(phrases, keys[i]) = Count(phrases, keys[j])
               /\ \/ Len(keys[i]) < Len(keys[j])
                  \/ Len(keys[i]) = Len(keys[j]) /\ i < j
        rank(i) == 1 + Cardinality({j \in 1..n : Less(j, i)})
    IN  [r \in 1..n |-> keys[CHOOSE i \in 1..n : rank(i) = r]]

\* The loop of generate_hashtags over the sorted phrases: the hashtags of
\* fitting length, none twice, up to the third.
CollectHashtags(sorted_phrases) ==
    LET made == [i \in 1..Len(sorted_phrases) |->
                    <<"#">> \o str_title(Clean(sorted_phrases[i]))]
        fitting == SelectSeq(made, LAMBDA hashtag : Len(hashtag) > 1 /\ Len(hashtag) <= 20)
        collected == Distinct(fitting)
    IN  IF Len(collected) > 3 THEN SubSeq(collected, 1, 3) ELSE collected

generate_hashtags(doc) ==
    CollectHashtags(SortedPhrases(Entities(doc.ents) \o NounChunks(doc.noun_chunks)))

\* f"{url}"
Format(v) == IF v = None THEN <<"N", "o", "n", "e">> ELSE v

\* The cut made at the limit itself, the marker coming on top.
Truncate_at_limit(tweet_text) ==
    IF Len(tweet_text) > TweetLimit
    THEN SubSeq(tweet_text, 1, TweetLimit) \o <<".", ".", ".">>
    ELSE tweet_text

\* `tweet_text[:277] + "..."` when longer than 280.
Truncate(tweet_text) ==
    IF Len(tweet_text) > TweetLimit
    THEN SubSeq(tweet_text, 1, TruncateAt) \o <<".", ".", ".">>
    ELSE tweet_text

\* ' '.join(hashtags)
RECURSIVE Join(_)
Join(list) ==
    IF list = <<>> THEN <<>>
    ELSE IF Len(list) = 1 THEN list[1]
    ELSE list[1] \o <<" ">> \o Join(Tail(list))

\* f"{summary}\n{url}\n{' '.join(hashtags)}", then the truncation.
ComposeTweet(summary, url, hashtags) ==
    Truncate(summary \o <<"\n">> \o Format(url) \o <<"\n">> \o Join(hashtags))

\* The loop returning the last valid article of the list.
FirstValid_last(articles, posted_articles) ==
    IF \E i \in 1..Len(articles) : is_valid_article(articles[i], posted_articles)
    THEN CHOOSE i \in 1..Len(articles) :
            /\ is_valid_article(articles[i], posted_articles)
            /\ \A j \in (i + 1)..Len(articles) :
                  ~is_valid_article(articles[j], posted_articles)
    ELSE 0

\* Index of the first valid article of the list, 0 when there is none.
FirstValid(articles, posted_articles) ==
    IF \E i \in 1..Len(articles) : is_valid_article(articles[i], posted_articles)
    THEN CHOOSE i \in 1..Len(articles) :
            /\ is_valid_article(articles[i], posted_articles)
            /\ \A j \in 1..(i - 1) : ~is_valid_article(articles[j], posted_articles)
    ELSE 0

\* The list create_tweet_text loops over, empty when it returns at line 195.
Candidates(all_articles) ==
    IF all_articles = NoneDict \/ DOMAIN all_articles = {}
       \/ "articles" \notin DOMAIN all_articles
    THEN <<>>
    ELSE all_articles.articles

\* full_text of an article, line 202.
ArticleText(article) ==
    LET title == Strip(Get(article, "title", <<>>))
        description == Strip(Get(article, "description", <<>>))
    IN  title \o <<".", " ">> \o description

\* The marks after which the NLP model is taken to end a sentence.
SentenceEnds == {".", "!", "?"}

\* The places of a text where a sentence can end before the end of the text.
CutPoints(text) ==
    {i \in 1..(Len(text) - 1) :
        text[i] \in SentenceEnds /\ (text[i + 1] = " " => i + 1 < Len(text))}

\* doc.sents of a text cut after the places `cuts`: the texts of the
\* sentences, each without the blank that follows its last token.
SplitAt(text, cuts) ==
    LET ends == cuts \cup {Len(text)}
        End(k) == CHOOSE e \in ends : Cardinality({d \in ends : d <= e}) = k
        Start(k) == IF k = 1 THEN 1
                    ELSE IF text[End(k - 1) + 1] = " " THEN End(k - 1) + 2
                    ELSE End(k - 1) + 1
        Stop(k) == IF text[End(k)] = " " THEN End(k) - 1 ELSE End(k)
    IN  IF text = <<>> THEN <<>>
        ELSE [k \in 1..Cardinality(ends) |-> SubSeq(text, Start(k), Stop(k))]

\* The sentence lists the NLP model can give for a text.
Sentences(text) == {SplitAt(text, cuts) : cuts \in SUBSET CutPoints(text)}

\* Of the sentence lists that lead to the same summary, one.
SentenceChoices(text) ==
    LET lists == Sentences(text)
        Summary(l) == summarize_text(l, SummaryBudget)
    IN  {CHOOSE l \in lists : Summary(l) = Summary(m) : m \in lists}

\* The (tweet_text, url) pair create_tweet_text returns, `sentences` being
\* the sentences the NLP model finds in the text of the article and
\* hashtags_of what generate_hashtags gives for it.
create_tweet_text_result(all_articles, posted_articles, sentences, hashtags_of) ==
    LET i == FirstValid(Candidates(all_articles), posted_articles)
    IN  IF i = 0 THEN <<None, None>>
        ELSE LET article == Candidates(all_articles)[i]
                 url == Get(article, "url", <<>>)
                 summary_of == summarize_text(sentences, SummaryBudget)
             IN  <<ComposeTweet(summary_of, url, hashtags_of), url>>

\* main saving whatever post_tweet returned.
main_saves_unchecked(tweet_text, posted) == Truthy(tweet_text)

\* main, line 269: save only when a text was composed and post_tweet said True.
main_saves(tweet_text, posted) == Truthy(tweet_text) /\ posted

----------------------------------------------------------------------------
\* --------------------------------------------------------------- environment
UrlA == <<"a">>
UrlB == <<"b">>

Article(title, description, content, url) ==
    [title |-> title, description |-> description, content |-> content, url |-> url]

\* The articles the provider may return.
ArticlePool ==
    { Article(<<"T">>, <<"D">>, <<"C">>, UrlA),
      Article(<<" ", "T">>, <<"D", "\n">>, <<"C">>, UrlB),
      [title |-> <<"T">>, description |-> <<"D">>, content |-> <<"C">>],
      Article(<<"T">>, <<>>, <<"C">>, UrlB),
      Article(<<RemovedMarker>>, <<"D">>, <<"C">>, UrlB) }

MaxArticles == 2

\* The lists of up to MaxArticles different articles.
ArticleLists ==
    UNION {{l \in [1..n -> ArticlePool] : \A i, j \in 1..n : l[i] = l[j] => i = j} :
              n \in 0..MaxArticles}

\* What the NLP model may find in the text of an article: nothing, or
\* entities and noun chunks of which three become hashtags.
Docs ==
    { Doc(<<>>, <<>>),
      Doc(<<Ent(<<"W", "h", "i", "t", "e", " ", "H", "o", "u", "s", "e">>, "ORG"),
            Ent(<<"B", "i", "d", "e", "n">>, "PERSON"),
            Ent(<<"T", "u", "e", "s", "d", "a", "y">>, "DATE"),
            Ent(<<"O", "h", "i", "o">>, "GPE"),
            Ent(<<"B", "i", "d", "e", "n">>, "PERSON")>>,
          <<<<"t", "h", "e", " ", "v", "o", "t", "e">>,
            <<"a", " ", "c", "l", "o", "s", "e", " ", "v", "o", "t", "e">>>>) }

\* generate_hashtags on each of them.
Hashtags == [doc \in Docs |-> generate_hashtags(doc)]

\* What get_everything returns when it does not raise.
EmptyDict == [k \in {} |-> None]
Responses ==
    {[status |-> "ok", articles |-> l] : l \in ArticleLists}
        \cup {[status |-> "ok"], EmptyDict}

\* The stores a run may find.  Beside the empty sheet and the header-only
\* sheet: sheets whose last row stands at or next to a limit, a row with
\* non-numeric cells and a digit of another script, a row with a digit int()
\* does not read, a row with a time of microseconds, a row with a time that is
\* no date, and edited headers.
T0 == Date(2024, 1, 1)

Row(url, requests, today, month, last_tweet_time) ==
    <<url, isoformat(T0), requests, today, month, last_tweet_time>>

\* 2024-01-01T10:30:15.123456, as isoformat() writes a time with microseconds.
WithMicroseconds ==
    SubSeq(isoformat(T0), 1, 11) \o <<"1", "0", ":", "3", "0", ":", "1", "5", ".", "1", "2", "3", "4", "5", "6">>
\* 2024-02-31T00:00:00
NoSuchDay ==
    <<"2", "0", "2", "4", "-", "0", "2", "-", "3", "1",
      "T", "0", "0", ":", "0", "0", ":", "0", "0">>

SeedRows ==
    { Row(UrlA, str(5), str(2), str(10), isoformat(T0)),
      Row(UrlA, str(999), str(49), str(1499), isoformat(T0)),
      Row(UrlA, str(1000), str(3), str(10), isoformat(T0)),
      Row(UrlA, str(7), str(50), str(60), isoformat(T0)),
      Row(UrlA, str(7), str(3), str(1500), WithMicroseconds),
      Row(<<>>, <<"x">>, <<>>, <<"1", "U+0662">>, <<>>),
      Row(UrlA, str(5), <<"U+00B2">>, str(10), isoformat(T0)),
      Row(UrlA, str(5), str(2), str(10), NoSuchDay) }

swapped_headers ==
    <<Name("url"), Name("timestamp"), Name("news_api_requests"),
      Name("tweets_this_month"), Name("tweets_today"), Name("last_tweet_time")>>

short_headers ==
    <<Name("url"), Name("timestamp"), Name("requests"),
      Name("tweets_today"), Name("tweets_this_month"), Name("last_tweet_time")>>

Stores ==
    {<<>>, <<expected_headers>>}
        \cup {<<expected_headers, r>> : r \in SeedRows}
        \cup {<<expected_headers,
                Row(UrlB, str(3), str(7), str(8), isoformat(T0)),
                Row(UrlA, str(5), str(2), str(10), isoformat(T0))>>,
              <<swapped_headers, Row(UrlA, str(5), str(2), str(10), isoformat(T0))>>,
              <<short_headers, Row(UrlA, str(5), str(2), str(10), isoformat(T0))>>}

UrlValues == {None, <<>>, UrlA, UrlB}

----------------------------------------------------------------------------
VARIABLES
    sheet,          \* the rows of the spreadsheet
    clock,          \* what datetime.now() returns
    pc,             \* the call main() is about to make; "idle" between cycles
    data,           \* main's dict `data`
    all_articles,   \* main's `all_articles`
    tweet_text,     \* main's `tweet_text`
    article_url,    \* main's `article_url`
    summary,        \* create_tweet_text's `summary`
    hashtags,       \* create_tweet_text's `hashtags`
    current_time,   \* post_tweet's `current_time`
    \* history of the run
    cycles,         \* cycles of main() started
    skipped,        \* articles create_tweet_text passed over before the selected one
    fresh,          \* the run began on a sheet without data rows
    started,        \* the clock when the current cycle started
    sheet0,         \* the sheet when the current cycle started
    loaded,         \* the dict load_data returned in the current cycle
    rolled,         \* `data` at the limit checks of post_tweet, after the resets
    outcome,        \* how the current cycle has ended, "running" until it has
    fetch_called,   \* the provider was queried in the current cycle
    fetch_time,     \* the clock at the last query that succeeded
    counted,        \* news_api_requests in memory after that query, 0 before any
    publish_called, \* client.create_tweet was called in the current cycle
    publish_ok,     \* and it returned
    published,      \* per url, how often it has been published with success
    posts_on        \* per date, the tweets the publisher made on that date
                    \* (kept by the quota specification only)

vars == <<sheet, clock, pc, data, all_articles, tweet_text, article_url, summary, hashtags,
                   skipped, current_time,
          cycles, fresh, started, sheet0, loaded, rolled, outcome, fetch_called,
          fetch_time, counted, publish_called, publish_ok, published, posts_on>>

Init ==
    /\ sheet \in Stores
    /\ clock \in Dates
    /\ pc = "idle"
    /\ data = ZeroState
    /\ all_articles = NoneDict
    /\ tweet_text = None
    /\ article_url = None
    /\ summary = None
    /\ hashtags = <<>>
    /\ skipped = 0
    /\ current_time = clock
    /\ cycles = 0
    /\ fresh = (sheet \in {<<>>, <<expected_headers>>})
    /\ sheet0 = sheet
    /\ loaded = ZeroState
    /\ rolled = ZeroState
    /\ outcome = "none"
    /\ fetch_called = FALSE
    /\ fetch_time = clock
    /\ counted = 0
    /\ started = clock
    /\ publish_called = FALSE
    /\ publish_ok = FALSE
    /\ published = [u \in UrlValues |-> 0]
    /\ posts_on = [d \in Dates |-> 0]

\* The wall clock moves on: between two cycles, and within a cycle before
\* post_tweet reads it at line 229 and before save_data reads it at line 107
\* (nothing reads it earlier in a cycle).
Tick ==
    /\ pc \in {"idle", "post_tweet", "save_data"}
    /\ \E d \in Dates : Before(clock, d) /\ clock' = d
    /\ UNCHANGED <<sheet, pc, data, all_articles, tweet_text, article_url, summary, hashtags,
                   skipped, current_time,
                   cycles, fresh, started, sheet0, loaded, rolled, outcome,
                   fetch_called, fetch_time, counted, publish_called, publish_ok,
                   published, posts_on>>

\* main, line 264: a cycle starts with load_data; a failing sheet call raises
\* out of main.
load_data_upto(limit) ==
    /\ pc = "idle"
    /\ cycles < limit
    /\ cycles' = cycles + 1
    /\ sheet0' = sheet
    /\ fetch_called' = FALSE
    /\ publish_called' = FALSE
    /\ publish_ok' = FALSE
    /\ all_articles' = NoneDict
    /\ tweet_text' = None
    /\ article_url' = None
    /\ summary' = None
    /\ hashtags' = <<>>
    /\ skipped' = 0
    /\ \E sheet_ok \in BOOLEAN :
        IF sheet_ok
        THEN /\ sheet' = IF LoadWritesHeader(sheet)
                         THEN append_row(sheet, expected_headers) ELSE sheet
             /\ data' = LoadedState(sheet)
             /\ loaded' = data'
             /\ rolled' = data'
             /\ pc' = "get_news"
             /\ outcome' = "running"
        ELSE /\ outcome' = "load_error"
             /\ UNCHANGED <<sheet, data, loaded, rolled, pc>>
    /\ started' = clock
    /\ current_time' = clock
    /\ UNCHANGED <<clock, fresh, fetch_time, counted, published, posts_on>>

load_data == load_data_upto(MaxCycles)

\* main, lines 265-266 and 273-274: get_news and the test of its result, the
\* provider answering with one of `responses` when it does not raise.
get_news_from(responses) ==
    /\ pc = "get_news"
    /\ IF ~can_fetch(data)
       THEN /\ pc' = "idle"
            /\ outcome' = "fetch_gate"
            /\ UNCHANGED <<data, all_articles, fetch_called, fetch_time, counted>>
       ELSE /\ fetch_called' = TRUE
            /\ \E provider_ok \in BOOLEAN :
                IF provider_ok
                THEN \E response \in responses :
                        /\ data' = [data EXCEPT !.news_api_requests = @ + 1]
                        /\ fetch_time' = clock
                        /\ counted' = data.news_api_requests + 1
                        /\ IF DOMAIN response = {}
                           THEN \* main, line 266: an empty dict is no result
                                /\ all_articles' = NoneDict
                                /\ pc' = "idle"
                                /\ outcome' = "no_articles"
                           ELSE /\ all_articles' = response
                                /\ pc' = "create_tweet_text"
                                /\ outcome' = "running"
                ELSE /\ pc' = "idle"
                     /\ outcome' = "provider_error"
                     /\ UNCHANGED <<data, all_articles, fetch_time, counted>>
    /\ UNCHANGED <<sheet, clock, tweet_text, article_url, summary, hashtags,
                   skipped, current_time, cycles, fresh,
                   started, sheet0, loaded, rolled, publish_called, publish_ok, published,
                   posts_on>>

get_news == get_news_from(Responses)

\* main, lines 268-269: create_tweet_text and the test of tweet_text.
create_tweet_text ==
    /\ pc = "create_tweet_text"
    /\ \E i \in {FirstValid(Candidates(all_articles), data.posted_articles)} :
           \E doc \in IF i = 0 THEN {Doc(<<>>, <<>>)} ELSE Docs :
               \E sentences \in IF i = 0 THEN {<<>>}
                                ELSE SentenceChoices(ArticleText(Candidates(all_articles)[i])) :
                   \E result \in {create_tweet_text_result(all_articles,
                                       data.posted_articles, sentences, Hashtags[doc])} :
                       /\ tweet_text' = result[1]
                       /\ article_url' = result[2]
                       /\ skipped' = IF i = 0 THEN Len(Candidates(all_articles))
                                     ELSE i - 1
                       /\ summary' = IF i = 0 THEN None
                                     ELSE summarize_text(sentences, SummaryBudget)
                       /\ hashtags' = IF i = 0 THEN <<>> ELSE Hashtags[doc]
                       /\ IF Truthy(result[1])
                          THEN pc' = "post_tweet" /\ outcome' = "running"
                          ELSE pc' = "idle" /\ outcome' = "no_valid_article"
    /\ all_articles' = NoneDict    \* not read again
    /\ UNCHANGED <<sheet, clock, data, current_time, cycles, fresh, started, sheet0,
                   loaded, rolled, fetch_called, fetch_time, counted, publish_called,
                   publish_ok, published, posts_on>>

\* post_tweet, and main's test of its result (line 269).  The clock is read
\* at line 229; the call of create_tweet at line 251 takes its time, and the
\* publisher makes the tweet at `sent`, which is where the clock stands when
\* the call is over.  `counting` says whether the history keeps the publishes
\* per date.
post_tweet_step(counting) ==
    /\ pc = "post_tweet"
    /\ current_time' = clock
    /\ IF Truthy(data.last_tweet_time) /\ ~IsIsoFormat(data.last_tweet_time)
       THEN \* fromisoformat raises, out of post_tweet and out of main
            /\ pc' = "idle"
            /\ outcome' = "post_error"
            /\ UNCHANGED <<clock, data, rolled, publish_called, publish_ok, published,
                           posts_on>>
       ELSE \E d \in {rollover(data, clock)} :
                /\ rolled' = d
                /\ IF ~can_post(d) \/ ~Truthy(tweet_text)
                   THEN /\ data' = d
                        /\ pc' = "idle"
                        /\ outcome' = IF ~can_post(d) THEN "post_gate" ELSE "no_text"
                        /\ UNCHANGED <<clock, publish_called, publish_ok, published,
                                       posts_on>>
                   ELSE /\ publish_called' = TRUE
                        /\ \E created \in BOOLEAN, sent \in Dates :
                            /\ sent = clock \/ Before(clock, sent)
                            /\ clock' = sent
                            /\ publish_ok' = created
                            /\ data' = IF created THEN record_post(d, clock) ELSE d
                            /\ published' =
                                 IF created
                                 THEN [published EXCEPT ![article_url] = @ + 1]
                                 ELSE published
                            /\ posts_on' =
                                 IF created /\ counting
                                 THEN [posts_on EXCEPT ![sent] = @ + 1]
                                 ELSE posts_on
                            /\ IF main_saves(tweet_text, created)
                               THEN pc' = "save_data" /\ outcome' = "running"
                               ELSE pc' = "idle" /\ outcome' = "publish_failed"
    \* the locals of create_tweet_text are gone
    /\ summary' = None
    /\ hashtags' = <<>>
    /\ skipped' = 0
    /\ UNCHANGED <<sheet, all_articles, tweet_text, article_url, cycles, fresh,
                   started, sheet0, loaded, fetch_called, fetch_time, counted>>

post_tweet == post_tweet_step(FALSE)

\* main, line 270: save_data appends the row; a failing sheet call raises.
save_data ==
    /\ pc = "save_data"
    /\ pc' = "idle"
    /\ \E sheet_ok \in BOOLEAN :
        IF sheet_ok
        THEN /\ sheet' = append_row(sheet, SavedRow(data, article_url, clock))
             /\ outcome' = "saved"
        ELSE /\ outcome' = "save_error"
             /\ UNCHANGED sheet
    /\ UNCHANGED <<clock, data, all_articles, tweet_text, article_url, summary, hashtags,
                   skipped, current_time,
                   cycles, fresh, started, sheet0, loaded, rolled, fetch_called,
                   fetch_time, counted, publish_called, publish_ok, published,
                   posts_on>>

\* The composition of create_tweet_text (lines 208-211) on its own, applied to
\* summaries, urls and hashtags whose lengths lie around the limit.
LenSpread == 5
BaseUrlLen == 95

Fill(n, c) == [i \in 1..n |-> c]

Summaries == {Fill(n, "s") : n \in (SummaryBudget - LenSpread)..SummaryBudget}
LongUrls == {Fill(n, "u") : n \in BaseUrlLen..(BaseUrlLen + LenSpread)}
HashtagLists == {<<>>, <<Fill(7, "#")>>, <<Fill(7, "#"), Fill(7, "#")>>}

InitCompose ==
    /\ sheet = <<>>
    /\ clock = T0
    /\ pc = "compose"
    /\ data = ZeroState
    /\ all_articles = NoneDict
    /\ tweet_text = None
    /\ article_url \in LongUrls
    /\ summary \in Summaries
    /\ hashtags \in HashtagLists
    /\ skipped = 0
    /\ current_time = clock
    /\ cycles = 0
    /\ fresh = TRUE
    /\ sheet0 = sheet
    /\ loaded = ZeroState
    /\ rolled = ZeroState
    /\ outcome = "none"
    /\ fetch_called = FALSE
    /\ fetch_time = clock
    /\ counted = 0
    /\ started = clock
    /\ publish_called = FALSE
    /\ publish_ok = FALSE
    /\ published = [u \in UrlValues |-> 0]
    /\ posts_on = [d \in Dates |-> 0]

compose ==
    /\ pc = "compose"
    /\ tweet_text' = ComposeTweet(summary, article_url, hashtags)
    /\ pc' = "composed"
    /\ UNCHANGED <<sheet, clock, data, all_articles, article_url, summary, hashtags,
                   skipped, current_time, cycles, fresh, started, sheet0, loaded, rolled,
                   outcome, fetch_called, fetch_time, counted, publish_called,
                   publish_ok, published, posts_on>>

SpecCompose == InitCompose /\ [][compose]_vars

\* A single instance started on an empty sheet whose sheet calls all succeed,
\* run for enough cycles to fill a day.  The clock starts at T0 and turns once
\* in a run, at any place of a cycle: to the next day or to the next month.
\* The provider, when it does not raise, returns one article that is valid in
\* every cycle, in whose text the NLP model finds nothing; publishing may fail.
QuotaCycles == 51
QuotaDates == {T0, Date(2024, 1, 2), Date(2024, 2, 1)}
\* The cycles of a run that may end without a row before its last cycle.
QuotaMisses == 1
QuotaResponse ==
    [status |-> "ok",
     articles |-> <<[title |-> <<"T">>, description |-> <<"D">>, content |-> <<"C">>]>>]

InitQuota == Init /\ sheet = <<>> /\ clock = T0

\* The one turn of the clock.
QuotaTurn == clock' = clock \/ (clock = T0 /\ clock' \in QuotaDates)

TickQuota == Tick /\ QuotaTurn

load_data_quota ==
    /\ cycles - Len(DataRows(sheet)) <= QuotaMisses
    /\ load_data_upto(QuotaCycles)
    /\ outcome' # "load_error"

get_news_quota == get_news_from({QuotaResponse})

create_tweet_text_quota == create_tweet_text /\ hashtags' = <<>>

post_tweet_quota == post_tweet_step(TRUE) /\ QuotaTurn

save_data_quota == save_data /\ outcome' = "saved"

NextQuota ==
    \/ TickQuota
    \/ load_data_quota
    \/ get_news_quota
    \/ create_tweet_text_quota
    \/ post_tweet_quota
    \/ save_data_quota

SpecQuota == InitQuota /\ [][NextQuota]_vars

Next == Tick \/ load_data \/ get_news \/ create_tweet_text \/ post_tweet \/ save_data

Spec == Init /\ [][Next]_vars

----------------------------------------------------------------------------
\* ------------------------------------------------------------------- claims
\* The cycle got past load_data.
Loaded == outcome \notin {"none", "load_error"}

\* The cycle got to the limit checks of post_tweet.
AtPostGate ==
    pc = "save_data"
        \/ outcome \in {"post_gate", "no_text", "publish_failed", "saved", "save_error"}

\* The ways a cycle ends early.
EarlyEnds ==
    {"fetch_gate", "provider_error", "no_articles", "no_valid_article", "post_gate",
     "publish_failed"}

IsPrefix(s, t) == Len(s) <= Len(t) /\ s = SubSeq(t, 1, Len(s))

\* C1: within a cycle at most one data row is appended, only after the
\* publish call of that cycle has succeeded, and the rows that were there stay;
\* a cycle that ends early leaves the data rows as they were at its start.
C1_AppendOnlyAfterPublish ==
    /\ IsPrefix(DataRows(sheet0), DataRows(sheet))
    /\ Len(DataRows(sheet)) <= Len(DataRows(sheet0)) + 1
    /\ Len(DataRows(sheet)) = Len(DataRows(sheet0)) + 1 => publish_ok
    /\ outcome \in EarlyEnds => DataRows(sheet) = DataRows(sheet0)

C1_Witness ==
    /\ outcome = "saved" /\ publish_ok
    /\ Len(DataRows(sheet)) = Len(DataRows(sheet0)) + 1

\* C2: no article url is published with success more than once by one instance,
\* whatever fails on the way.
C2_AtMostOnce == \A u \in {UrlA, UrlB} : published[u] <= 1

\* C3: the article selected never has a url that is among the posted urls of
\* the loaded state.
C3_NeverSelectsPosted ==
    Truthy(tweet_text) =>
        \A i \in 1..Len(loaded.posted_articles) : loaded.posted_articles[i] # article_url

C3_Witness ==
    /\ Truthy(tweet_text) /\ article_url = UrlB
    /\ \E i \in 1..Len(loaded.posted_articles) : loaded.posted_articles[i] = UrlA

\* C4: on a store that began empty and holds only rows of this program,
\* tweets_today <= tweets_this_month in the state load_data returns, in the
\* state after the resets and in the state after a publish is recorded.
C4_TodayAtMostMonth ==
    fresh =>
        /\ loaded.tweets_today <= loaded.tweets_this_month
        /\ rolled.tweets_today <= rolled.tweets_this_month
        /\ data.tweets_today <= data.tweets_this_month

C4_Witness ==
    /\ fresh /\ outcome = "saved"
    /\ loaded.tweets_today = 1 /\ loaded.tweets_this_month = 1
    /\ rolled.tweets_today = 0 /\ rolled.tweets_this_month = 1
    /\ data.tweets_today = 1 /\ data.tweets_this_month = 2

\* C5: post_tweet refuses exactly when, after the resets, tweets_today >= 50 or
\* tweets_this_month >= 1500; a refusing cycle neither calls the publisher nor
\* appends to the store.
C5_PostGate ==
    AtPostGate =>
        /\ outcome = "post_gate" <=>
              (rolled.tweets_today >= 50 \/ rolled.tweets_this_month >= 1500)
        /\ outcome = "post_gate" =>
              ~publish_called /\ DataRows(sheet) = DataRows(sheet0)

C5_Witness ==
    /\ outcome = "post_gate" /\ ~publish_called
    /\ rolled.tweets_today < 50 /\ rolled.tweets_this_month >= 1500

\* C6: get_news refuses exactly when the loaded news_api_requests >= 1000; a
\* refusing cycle queries no provider, publishes nothing and appends nothing.
C6_FetchGate ==
    (Loaded /\ pc # "get_news") =>
        /\ outcome = "fetch_gate" <=> loaded.news_api_requests >= 1000
        /\ outcome = "fetch_gate" =>
              ~fetch_called /\ ~publish_called /\ DataRows(sheet) = DataRows(sheet0)

C6_Witness ==
    outcome = "fetch_gate" /\ loaded.news_api_requests = 1000 /\ ~fetch_called

\* The calendar month of a lies after that of b.
LaterMonth(a, b) == a.year > b.year \/ (a.year = b.year /\ a.month > b.month)

\* C7: in a cycle that runs in a later calendar month than the last row was
\* written, the request counter counts as reset, so get_news does not refuse.
C7_RequestsResetMonthly ==
    ( /\ Loaded /\ pc # "get_news"
      /\ Truthy(loaded.last_tweet_time) /\ IsIsoFormat(loaded.last_tweet_time)
      /\ LaterMonth(started, fromisoformat(loaded.last_tweet_time)) )
        => outcome # "fetch_gate"

\* C8: the resets of post_tweet: tweets_today becomes 0 iff the calendar date
\* of now differs from that of last_tweet_time, tweets_this_month becomes 0 iff
\* the calendar month (of the year) differs; without last_tweet_time nothing
\* changes.
C8_Rollover ==
    (AtPostGate /\ outcome # "no_text") =>
        IF Truthy(loaded.last_tweet_time)
        THEN LET last == fromisoformat(loaded.last_tweet_time)
             IN  /\ rolled.tweets_today =
                        IF current_time # last THEN 0 ELSE loaded.tweets_today
                 /\ rolled.tweets_this_month =
                        IF current_time.year # last.year \/ current_time.month # last.month
                        THEN 0 ELSE loaded.tweets_this_month
        ELSE /\ rolled.tweets_today = loaded.tweets_today
             /\ rolled.tweets_this_month = loaded.tweets_this_month

\* C9: a query that succeeds raises news_api_requests by exactly 1, a query
\* that fails or is refused raises nothing, and the count a query reached is
\* what the next cycle of the same month loads.
C9_QueriesCounted ==
    /\ (Loaded /\ pc # "get_news") =>
          data.news_api_requests =
              IF outcome \in {"fetch_gate", "provider_error"}
              THEN loaded.news_api_requests ELSE loaded.news_api_requests + 1
    /\ ( /\ pc = "get_news" /\ counted > 0
         /\ started.year = fetch_time.year /\ started.month = fetch_time.month )
          => loaded.news_api_requests = counted

\* C10: load_data on a sheet without rows appends the header row and returns
\* the zero state; on a header-only sheet it returns the zero state; on any
\* sheet with rows it writes nothing.
C10_LoadInitialises ==
    pc = "get_news" =>
        LET zero == [posted_articles |-> <<>>, news_api_requests |-> 0,
                     tweets_today |-> 0, tweets_this_month |-> 0,
                     last_tweet_time |-> None]
        IN  /\ sheet0 = <<>> =>
                /\ sheet = << <<Name("url"), Name("timestamp"), Name("news_api_requests"),
                               Name("tweets_today"), Name("tweets_this_month"),
                               Name("last_tweet_time")>> >>
                /\ data = zero
            /\ Len(sheet0) = 1 => data = zero
            /\ sheet0 # <<>> => sheet = sheet0

C10_Witness == pc = "get_news" /\ sheet0 = <<>> /\ Len(sheet) = 1 /\ data = ZeroState

\* The header row of the schema.
SchemaRow ==
    <<Name("url"), Name("timestamp"), Name("news_api_requests"),
      Name("tweets_today"), Name("tweets_this_month"), Name("last_tweet_time")>>

\* C11: on a sheet with the schema header and at least one data row, load_data
\* returns the non-empty url cells of all data rows, and the counters and
\* last_tweet_time of the last data row alone, a counter cell that is not a
\* number read as 0. It fails on a cell isdigit() accepts and int() rejects:
\* the ValueError sends the whole load to the zero state (lines 93-101).
C11_LoadReadsLastRow ==
    (pc = "get_news" /\ Len(sheet0) >= 2 /\ sheet0[1] = SchemaRow) =>
        LET rows == Tail(sheet0)
            last == rows[Len(rows)]
            NonEmpty(u) == u # <<>>
            ReadAs(cell, v) ==
                IF isdigit(cell) /\ ~IntRaises(cell) THEN int(cell) = v ELSE v = 0
        IN  /\ data.posted_articles =
                  SelectSeq([i \in 1..Len(rows) |-> rows[i][1]], NonEmpty)
            /\ ReadAs(last[3], data.news_api_requests)
            /\ ReadAs(last[4], data.tweets_today)
            /\ ReadAs(last[5], data.tweets_this_month)
            /\ data.last_tweet_time = IF last[6] = <<>> THEN None ELSE last[6]

\* C12: the store is append-only: every step leaves the rows that were there
\* in place, as a prefix of the rows after it, and adds at most one row.
C12_AppendOnly ==
    [][IsPrefix(sheet, sheet') /\ Len(sheet') <= Len(sheet) + 1]_vars

C12_Witness ==
    /\ outcome = "saved" /\ Len(sheet0) >= 2
    /\ Len(sheet) = Len(sheet0) + 1 /\ IsPrefix(sheet0, sheet)

\* Articles with each of the four fields missing, empty, None or present.
FilterCases ==
    LET values == {<<>>, None, <<"x">>}
        fields == {"title", "description", "content", "url"}
    IN  UNION {[keys -> values] : keys \in SUBSET fields}

\* C13: is_valid_article is false for every article with an empty or missing
\* title, description, content or url, whatever the posted urls; an article
\* without url is never selected.
C13_RejectsEmptyFields ==
    Truthy(tweet_text) =>
        /\ Truthy(article_url)
        /\ \A a \in FilterCases :
              (\E k \in {"title", "description", "content", "url"} :
                    ~Truthy(Get(a, k, <<>>)))
                  => ~is_valid_article(a, loaded.posted_articles)

\* C14: create_tweet_text returns the first article, in the order of the
\* response, that is_valid_article accepts: all articles before it are
\* invalid; with no valid article it returns nothing and the cycle ends
\* without a publish and without an append.
C14_FirstValidSelected ==
    [][ (pc = "create_tweet_text" /\ pc' # pc) =>
          LET list == IF "articles" \in DOMAIN all_articles
                      THEN all_articles.articles ELSE <<>>
              valid(a) == is_valid_article(a, data.posted_articles)
          IN  IF \E i \in 1..Len(list) : valid(list[i])
              THEN /\ Truthy(tweet_text') /\ pc' = "post_tweet"
                   /\ skipped' < Len(list)
                   /\ valid(list[skipped' + 1])
                   /\ \A j \in 1..skipped' : ~valid(list[j])
                   /\ article_url' = Get(list[skipped' + 1], "url", <<>>)
              ELSE /\ tweet_text' = None /\ article_url' = None
                   /\ pc' = "idle" /\ outcome' = "no_valid_article"
                   /\ sheet' = sheet /\ ~publish_called' ]_vars

C14_Witness ==
    /\ Truthy(tweet_text) /\ skipped = 1 /\ article_url = UrlB
    /\ loaded.posted_articles = <<>>

\* The loaded last_tweet_time is absent or one fromisoformat parses.
TimeReadable == ~Truthy(loaded.last_tweet_time) \/ IsIsoFormat(loaded.last_tweet_time)

\* C15: the resets of post_tweet are idempotent: applied twice with the same
\* now they give the state they give applied once, for the state load_data
\* returned and every now, and for the state post_tweet computed with its own
\* now.
C15_RolloverIdempotent ==
    /\ (pc = "get_news" /\ TimeReadable) =>
          \A now \in Dates :
              rollover(rollover(loaded, now), now) = rollover(loaded, now)
    /\ (AtPostGate /\ outcome # "no_text") => rollover(rolled, current_time) = rolled

C15_Witness ==
    /\ AtPostGate
    /\ loaded.tweets_today > 0 /\ rolled.tweets_today = 0
    /\ loaded.tweets_this_month > 0 /\ rolled.tweets_this_month = 0
    /\ rollover(rolled, current_time) = rolled

\* C16: a composed text of more than 280 characters comes out with exactly
\* 280, the first 277 of the composed text followed by "..."; a composed text
\* of at most 280 characters comes out unchanged.
C16_Truncation ==
    pc = "composed" =>
        LET full == summary \o <<"\n">> \o article_url \o <<"\n">> \o Join(hashtags)
        IN  IF Len(full) > 280
            THEN /\ Len(tweet_text) = 280
                 /\ SubSeq(tweet_text, 278, 280) = <<".", ".", ".">>
                 /\ SubSeq(tweet_text, 1, 277) = SubSeq(full, 1, 277)
            ELSE tweet_text = full

C16_Witness ==
    /\ pc = "composed"
    /\ Len(summary) + Len(article_url) + Len(Join(hashtags)) + 2 = 281
    /\ Len(tweet_text) = 280 /\ tweet_text[280] = "." /\ tweet_text[277] # "."

\* C17: the row a successful cycle appends holds the url of the article just
\* published, the loaded news_api_requests plus 1, the tweets_today and
\* tweets_this_month left by the resets plus 1 each, and as last_tweet_time the
\* time post_tweet took; a failed publish leaves both tweet counters as the
\* resets left them and last_tweet_time as loaded.
C17_SavedRow ==
    /\ outcome = "saved" =>
          LET row == sheet[Len(sheet)]
          IN  /\ row[1] = Cell(article_url)
              /\ published[article_url] >= 1
              /\ row[3] = str(loaded.news_api_requests + 1)
              /\ row[4] = str(rolled.tweets_today + 1)
              /\ row[5] = str(rolled.tweets_this_month + 1)
              /\ row[6] = isoformat(current_time)
    /\ outcome = "publish_failed" =>
          /\ data.tweets_today = rolled.tweets_today
          /\ data.tweets_this_month = rolled.tweets_this_month
          /\ data.last_tweet_time = loaded.last_tweet_time

C17_Witness ==
    /\ outcome = "saved" /\ article_url = UrlB
    /\ loaded.tweets_today = 2 /\ rolled.tweets_today = 0
    /\ loaded.last_tweet_time = isoformat(T0) /\ current_time = Date(2024, 1, 2)
    /\ sheet[Len(sheet)] = <<UrlB, isoformat(Date(2024, 1, 2)), str(6), str(1), str(11),
                             isoformat(Date(2024, 1, 2))>>

\* The last row holds a full day written on an earlier date of the month the
\* cycle posts in, the month not being full.
FullDayBehind ==
    /\ loaded.tweets_today = 50 /\ loaded.tweets_this_month < 1500
    /\ Truthy(loaded.last_tweet_time) /\ IsIsoFormat(loaded.last_tweet_time)
    /\ LET last_tweet == fromisoformat(loaded.last_tweet_time)
       IN  /\ last_tweet.year = current_time.year
           /\ last_tweet.month = current_time.month
           /\ last_tweet.day < current_time.day

\* C18: the resets come before the limits in every cycle that gets to
\* post_tweet: with tweets_today = 50 in the last row, written on an earlier
\* date of the same month with tweets_this_month < 1500, the limits let the
\* cycle through and the publisher is called; a cycle whose publish fails
\* leaves the rows alone, so the cycle after it loads the same state and
\* computes the resets from it anew.
C18_RolloverBeforeGate ==
    /\ [](AtPostGate =>
            /\ rolled = rollover([loaded EXCEPT !.news_api_requests = @ + 1], current_time)
            /\ FullDayBehind =>
                  rolled.tweets_today = 0 /\ outcome # "post_gate" /\ publish_called)
    /\ [][(outcome = "publish_failed" /\ outcome' = "running" /\ pc' = "get_news")
             => loaded' = loaded]_vars

C18_Witness ==
    /\ cycles = 2 /\ outcome = "publish_failed" /\ DataRows(sheet) = DataRows(sheet0)
    /\ FullDayBehind /\ rolled.tweets_today = 0 /\ publish_called
    /\ published = [u \in UrlValues |-> 0]

\* The successful publishes of the calendar month of a date.
PostsInMonth(now) ==
    LET same == {d \in Dates : d.year = now.year /\ d.month = now.month}
        Sum[S \in SUBSET same] ==
            IF S = {} THEN 0
            ELSE LET d == CHOOSE x \in S : TRUE IN posts_on[d] + Sum[S \ {d}]
    IN  Sum[same]

\* C19: with one instance started on an empty sheet, a clock that never goes
\* back and sheet calls that all succeed, no calendar date sees more than 50
\* successful publishes and no calendar month more than 1500.  It fails on a
\* call of create_tweet that begins before midnight and ends after it: the
\* tweet is counted for the day read at line 229, and the day it was made on
\* takes 50 more.
C19_PublishQuota ==
    \A d \in Dates : posts_on[d] <= 50 /\ PostsInMonth(d) <= 1500

\* The counters of a row lie within the limits and its last_tweet_time is set.
WithinLimits(row) ==
    /\ isdigit(row[3]) /\ 1 <= int(row[3]) /\ int(row[3]) <= 1000
    /\ isdigit(row[4]) /\ 1 <= int(row[4]) /\ int(row[4]) <= 50
    /\ isdigit(row[5]) /\ 1 <= int(row[5]) /\ int(row[5]) <= 1500
    /\ row[6] # <<>>

\* C20: every data row the program appends has 1 <= tweets_today <= 50,
\* tweets_this_month <= 1500, 1 <= news_api_requests <= 1000 and a
\* last_tweet_time, whatever the sheet held before; on a sheet that began
\* empty every data row has tweets_today <= tweets_this_month as well.
C20_RowsWithinLimits ==
    /\ \A i \in (Len(DataRows(sheet0)) + 1)..Len(DataRows(sheet)) :
          WithinLimits(DataRows(sheet)[i])
    /\ fresh =>
          \A i \in 1..Len(DataRows(sheet)) :
              /\ WithinLimits(DataRows(sheet)[i])
              /\ int(DataRows(sheet)[i][4]) <= int(DataRows(sheet)[i][5])

C20_Witness ==
    /\ fresh /\ outcome = "saved" /\ Len(DataRows(sheet)) = 2
    /\ int(sheet[2][4]) = 1 /\ int(sheet[2][5]) = 1 /\ int(sheet[2][3]) = 1
    /\ int(sheet[3][4]) = 1 /\ int(sheet[3][5]) = 2 /\ int(sheet[3][3]) = 2

====
